---- MODULE Spec2Model ----
(***************************************************************************)
(* Thread-state tier of the chatbot backend: the in-process Fast Store     *)
(* (LocalCache behind CacheManager), the Durable Store (PostgresClient     *)
(* behind Datastore) and the request handlers of server.py that use them.  *)
(*                                                                         *)
(* Two specifications are given over the same state:                       *)
(*   Spec    - the request handlers of server.py, one request in flight at *)
(*             a time, each handler cut at its await points, with storage  *)
(*             errors of the database chosen nondeterministically;         *)
(*   SpecApi - direct calls of the public methods of CacheManager and      *)
(*             Datastore with arguments drawn from small sets.             *)
(***************************************************************************)
EXTENDS Integers, Sequences, FiniteSets, TLC

VARIABLES
    now,          \* the wall clock read by time.time() / datetime.now()
    cache_data,   \* LocalCache.cache_data: thread_id -> record
    pg_table,     \* rows of the table conversation_history: thread_id -> row
    checkpoints,  \* thread ids holding rows in the checkpoint tables
    req,          \* the request in flight: handler, position, locals, response
    next_msg,     \* how many messages the API caller has produced so far
    CACHE_NAME,   \* the environment variable read by CacheManager.__init__
    redis_db,     \* the keys of the Redis database, grouped by thread_id
    ret           \* what the last direct call of the Fast Store API returned

vars == <<now, cache_data, pg_table, checkpoints, req, next_msg, CACHE_NAME, redis_db, ret>>

----------------------------------------------------------------------------
(* Bounds of the model *)

\* the clock runs over 1..MaxClock
MaxClock == 2
\* a generate request is admitted on a thread that has had fewer than
\* MaxRounds generation rounds
MaxRounds == 1
\* the API caller produces at most MaxMsgs messages
MaxMsgs == 3

----------------------------------------------------------------------------
(* Values *)

\* the ids uuid4() may return
ThreadIds == {"t1"}

\* Python's None where a string is expected
None == "None"

\* user ids a client may send
UserIds == {"", "u1"}

\* Loosely typed timestamps: None, a float epoch, the text written by
\* strftime("%Y-%m-%d %H:%M:%S.%f"), a text that is no ISO date, and the
\* datetime object psycopg returns for a TIMESTAMP column.
TNone == [kind |-> "none", val |-> 0]
TFloat(n) == [kind |-> "float", val |-> n]
TStr(n) == [kind |-> "str", val |-> n]
\* a string that datetime.fromisoformat accepts and that is not in the
\* strftime form, such as "2024-01-01T10:00:00"
TIso(n) == [kind |-> "isostr", val |-> n]
TBad == [kind |-> "badstr", val |-> 0]
TDatetime(n) == [kind |-> "datetime", val |-> n]

\* Python truthiness of a timestamp value (x or y)
Truthy(t) ==
    CASE t.kind = "none" -> FALSE
      [] t.kind = "float" -> t.val # 0
      [] OTHER -> TRUE

\* bleach.clean(v, strip=True): markup is stripped, other text is kept
bleach_clean(v) == IF v = "<br>" THEN "" ELSE v

valid_roles == {"user", "assistant", "system"}

\* the key "feedback" of a message dict: absent, or the score given
NoFeedback == [given |-> FALSE, score |-> 0]
Feedback(score) == [given |-> TRUE, score |-> score]

NoMessage == [role |-> "", content |-> "", timestamp |-> TNone, feedback |-> NoFeedback]

\* a faulty variant of Message: sanitize_content does not look at what
\* bleach.clean left
Message_unchecked(role, content, epoch) ==
    IF role \notin valid_roles THEN [raised |-> "ValueError", value |-> NoMessage]
    ELSE [raised |-> "",
          value |-> [role |-> role, content |-> bleach_clean(content),
                     timestamp |-> TStr(epoch), feedback |-> NoFeedback]]

\* Message(role=, content=, timestamp=f"{epoch}").model_dump(): the validators
\* reject an unknown role and an empty content, and rewrite a digit string
\* timestamp with strftime.
Message(role, content, epoch) ==
    IF role \notin valid_roles THEN [raised |-> "ValueError", value |-> NoMessage]
    ELSE IF bleach_clean(content) = "" THEN [raised |-> "ValueError", value |-> NoMessage]
    ELSE [raised |-> "",
          value |-> [role |-> role, content |-> bleach_clean(content),
                     timestamp |-> TStr(epoch), feedback |-> NoFeedback]]

----------------------------------------------------------------------------
(* Timestamp normalisation of CacheManager.update_conversation_thread and  *)
(* Datastore.save_update_thread (the two copies are the same code)         *)

\* a faulty variant of normalize_time: a datetime object is formatted like
\* an epoch number
normalize_time_datetime(t, clock) ==
    CASE t.kind \in {"str", "isostr"} -> [raised |-> "", value |-> t]
      [] t.kind = "badstr" -> [raised |-> "ValueError", value |-> t]
      [] t.kind = "datetime" -> [raised |-> "", value |-> TStr(t.val)]
      [] OTHER -> [raised |-> "",
                   value |-> TStr(IF Truthy(t) THEN t.val ELSE clock)]

normalize_time(t, clock) ==
    CASE t.kind \in {"str", "isostr"} -> [raised |-> "", value |-> t]
      [] t.kind = "badstr" -> [raised |-> "ValueError", value |-> t]
      [] t.kind = "datetime" -> [raised |-> "TypeError", value |-> t]
      [] OTHER -> [raised |-> "",
                   value |-> TStr(IF Truthy(t) THEN t.val ELSE clock)]

\* the shape of a thread record, for results that hold none
NoInfo ==
    [user_id |-> None, conversation_history |-> <<>>,
     last_conversation_time |-> TNone, start_conversation_time |-> TNone]

\* self.expiry, the seconds a key written with ex=self.expiry lives, in
\* ticks of the clock
Expiry == 1

\* the time to live of a Redis key: none (the key stays until it is
\* deleted), or the clock value at which the server removes the key
Persist == [set |-> FALSE, at |-> 0]
ExpireAt(n) == [set |-> TRUE, at |-> n]

\* the keys of a thread in Redis when none exists; expire_at holds the time
\* to live of each key
RedisNoKeys ==
    [user_id |-> None, conversation_history |-> <<>>,
     last_conversation_time |-> TNone, start_conversation_time |-> TNone,
     expire_at |-> [user_id |-> Persist, conversation_history |-> Persist,
                    last_conversation_time |-> Persist,
                    start_conversation_time |-> Persist]]

\* the keys of a thread once the clock shows `clock`: the server has removed
\* every key whose time to live is over
RedisExpired(keys, clock) ==
    LET gone(k) == keys.expire_at[k].set /\ keys.expire_at[k].at <= clock
    IN  [k \in DOMAIN keys |->
            IF k = "expire_at"
            THEN [j \in DOMAIN keys.expire_at |->
                     IF gone(j) THEN Persist ELSE keys.expire_at[j]]
            ELSE IF gone(k) THEN RedisNoKeys[k] ELSE keys[k]]

\* the two reads of datetime.now() in create_conversation_thread: the clock
\* may advance between the first and the second
ClockReads(clock) == {clock} \cup (IF clock < MaxClock THEN {clock + 1} ELSE {})

----------------------------------------------------------------------------
(* LocalCache *)

\* a faulty variant of LocalCache_is_thread: the answer is whether the cache
\* holds any thread
LocalCache_is_thread_any(cache, thread_id) == DOMAIN cache # {}

LocalCache_is_thread(cache, thread_id) == thread_id \in DOMAIN cache

\* cache_data.get(thread_id, {}): found is FALSE for the empty dict
LocalCache_get_thread_info(cache, thread_id) ==
    IF thread_id \in DOMAIN cache
    THEN [found |-> TRUE, info |-> cache[thread_id]]
    ELSE [found |-> FALSE, info |-> NoInfo]

LocalCache_get_messages(cache, thread_id) ==
    IF thread_id \in DOMAIN cache THEN cache[thread_id].conversation_history
    ELSE <<>>

\* a faulty variant of NewThread: the start time is left unstamped
NewThread_unstamped(user_id, t_last, t_start) ==
    [user_id |-> IF user_id = None THEN "" ELSE user_id,
     conversation_history |-> <<>>,
     last_conversation_time |-> TStr(t_last),
     start_conversation_time |-> TStr(0)]

\* the record written by create_conversation_thread; t_last and t_start are
\* its two reads of datetime.now(), in that order
NewThread(user_id, t_last, t_start) ==
    [user_id |-> IF user_id = None THEN "" ELSE user_id,
     conversation_history |-> <<>>,
     last_conversation_time |-> TStr(t_last),
     start_conversation_time |-> TStr(t_start)]

\* a faulty variant of the create: the new thread replaces the whole dict
LocalCache_create_conversation_thread_clearing(cache, thread_id, user_id, t_last, t_start) ==
    IF LocalCache_is_thread(cache, thread_id)
    THEN [ok |-> FALSE, cache |-> cache]
    ELSE [ok |-> TRUE,
          cache |-> [x \in {thread_id} |-> NewThread(user_id, t_last, t_start)]]

LocalCache_create_conversation_thread(cache, thread_id, user_id, t_last, t_start) ==
    IF LocalCache_is_thread(cache, thread_id)
    THEN [ok |-> FALSE, cache |-> cache]
    ELSE [ok |-> TRUE,
          cache |-> [x \in DOMAIN cache \cup {thread_id} |->
                        IF x = thread_id THEN NewThread(user_id, t_last, t_start)
                        ELSE cache[x]]]

\* a faulty variant of KeepStart: the supplied start time always wins
KeepStart_supplied(existing_start, start_conversation_time) ==
    start_conversation_time

\* start_conversation_time written by update_conversation_thread
KeepStart(existing_start, start_conversation_time) ==
    IF Truthy(existing_start) THEN existing_start ELSE start_conversation_time

\* a faulty variant of Concat: the new messages replace the history
Concat_replacing(existing, conversation_history) == conversation_history

\* a faulty variant of Concat: the oldest message is dropped
Concat_dropping(existing, conversation_history) ==
    (IF existing = <<>> THEN <<>> ELSE Tail(existing)) \o conversation_history

\* conversation_history written by update_conversation_thread
Concat(existing, conversation_history) == existing \o conversation_history

LocalCache_update_conversation_thread(cache, thread_id, user_id, conversation_history, start_conversation_time, last_conversation_time, t_last, t_start) ==
    LET c1 == IF LocalCache_is_thread(cache, thread_id) THEN cache
              ELSE LocalCache_create_conversation_thread(
                       cache, thread_id, user_id, t_last, t_start).cache
        old == c1[thread_id]
        new == [user_id |-> IF user_id # None THEN user_id ELSE old.user_id,
                conversation_history |->
                    Concat(old.conversation_history, conversation_history),
                start_conversation_time |->
                    KeepStart(old.start_conversation_time, start_conversation_time),
                last_conversation_time |-> last_conversation_time]
    IN  [ok |-> TRUE, cache |-> [c1 EXCEPT ![thread_id] = new]]

\* a faulty variant of the feedback: the score is put on the first message
LocalCache_response_feedback_first(cache, thread_id, response_feedback) ==
    IF thread_id \notin DOMAIN cache THEN [ok |-> FALSE, cache |-> cache]
    ELSE IF cache[thread_id].conversation_history = <<>>
    THEN [ok |-> FALSE, cache |-> cache]
    ELSE [ok |-> TRUE,
          cache |-> [cache EXCEPT ![thread_id].conversation_history[1].feedback =
                                      Feedback(response_feedback)]]

\* conversation_history[-1]["feedback"] = response_feedback
LocalCache_response_feedback(cache, thread_id, response_feedback) ==
    IF thread_id \notin DOMAIN cache THEN [ok |-> FALSE, cache |-> cache]
    ELSE IF cache[thread_id].conversation_history = <<>>
    THEN [ok |-> FALSE, cache |-> cache]
    ELSE LET n == Len(cache[thread_id].conversation_history)
         IN  [ok |-> TRUE,
              cache |-> [cache EXCEPT ![thread_id].conversation_history[n].feedback =
                                          Feedback(response_feedback)]]

LocalCache_delete_conversation_thread(cache, thread_id) ==
    IF LocalCache_is_thread(cache, thread_id)
    THEN [ok |-> TRUE, cache |-> [x \in DOMAIN cache \ {thread_id} |-> cache[x]]]
    ELSE [ok |-> FALSE, cache |-> cache]

----------------------------------------------------------------------------
(* CacheManager over LocalCache (CACHE_NAME defaults to "inmemory") *)

CacheManager_update_conversation_thread(cache, thread_id, user_id, conversation_history, start_conversation_time, last_conversation_time, clock, t_start) ==
    LET s == normalize_time(start_conversation_time, clock)
        l == normalize_time(last_conversation_time, clock)
    IN  IF s.raised # "" THEN [raised |-> s.raised, ok |-> FALSE, cache |-> cache]
        ELSE IF l.raised # "" THEN [raised |-> l.raised, ok |-> FALSE, cache |-> cache]
        ELSE LET u == LocalCache_update_conversation_thread(
                          cache, thread_id, user_id, conversation_history,
                          s.value, l.value, clock, t_start)
             IN  [raised |-> "", ok |-> u.ok, cache |-> u.cache]

----------------------------------------------------------------------------
(* PostgresClient: one row per thread_id in the table conversation_history *)

PostgresClient_is_thread(table, thread_id, db_ok) ==
    db_ok /\ thread_id \in DOMAIN table

\* the row as a dict; the TIMESTAMP columns come back as datetime objects
PostgresClient_get_thread_info(table, thread_id, db_ok) ==
    IF db_ok /\ thread_id \in DOMAIN table
    THEN [found |-> TRUE,
          info |-> [user_id |-> table[thread_id].user_id,
                    last_conversation_time |->
                        TDatetime(table[thread_id].last_conversation_time),
                    start_conversation_time |->
                        TDatetime(table[thread_id].start_conversation_time),
                    conversation_history |-> table[thread_id].conversation_data]]
    ELSE [found |-> FALSE, info |-> NoInfo]

\* ON CONFLICT (thread_id) DO UPDATE SET ...
Upsert(row, user_id, start, last, conversation_history) ==
    [user_id |-> user_id,
     start_conversation_time |-> row.start_conversation_time,
     last_conversation_time |-> last,
     conversation_data |-> row.conversation_data \o conversation_history]

\* INSERT ... VALUES (...)
Insert(user_id, start, last, conversation_history) ==
    [user_id |-> user_id,
     start_conversation_time |-> start,
     last_conversation_time |-> last,
     conversation_data |-> conversation_history]

\* a faulty variant of save_update_thread: a failed statement leaves the
\* new messages in the row without the new last_conversation_time
PostgresClient_save_update_thread_torn(table, thread_id, user_id, conversation_history, start_conversation_time, last_conversation_time, db_ok) ==
    LET uid == IF user_id = "" \/ user_id = None THEN None ELSE user_id
        s == start_conversation_time.val
        l == last_conversation_time.val
    IN  IF db_ok
        THEN [x \in DOMAIN table \cup {thread_id} |->
                IF x # thread_id THEN table[x]
                ELSE IF thread_id \in DOMAIN table
                     THEN Upsert(table[thread_id], uid, s, l, conversation_history)
                     ELSE Insert(uid, s, l, conversation_history)]
        ELSE IF thread_id \in DOMAIN table
        THEN [table EXCEPT ![thread_id].conversation_data = @ \o conversation_history]
        ELSE table

\* the table after save_update_thread; the method returns None on every path
PostgresClient_save_update_thread(table, thread_id, user_id, conversation_history, start_conversation_time, last_conversation_time, db_ok) ==
    LET uid == IF user_id = "" \/ user_id = None THEN None ELSE user_id
        s == start_conversation_time.val
        l == last_conversation_time.val
    IN  IF ~db_ok THEN table
        ELSE [x \in DOMAIN table \cup {thread_id} |->
                IF x # thread_id THEN table[x]
                ELSE IF thread_id \in DOMAIN table
                     THEN Upsert(table[thread_id], uid, s, l, conversation_history)
                     ELSE Insert(uid, s, l, conversation_history)]

\* a faulty variant of the delete: the row is left in place
PostgresClient_delete_conversation_thread_noop(table, thread_id, db_ok) == table

PostgresClient_delete_conversation_thread(table, thread_id, db_ok) ==
    IF db_ok THEN [x \in DOMAIN table \ {thread_id} |-> table[x]] ELSE table

----------------------------------------------------------------------------
(* Datastore over PostgresClient *)

\* raised: the exception of the validation, "" when the write was issued
Datastore_save_update_thread(table, thread_id, user_id, conversation_history, start_conversation_time, last_conversation_time, clock, db_ok) ==
    LET s == normalize_time(start_conversation_time, clock)
        l == normalize_time(last_conversation_time, clock)
    IN  IF s.raised # "" THEN [raised |-> s.raised, table |-> table]
        ELSE IF l.raised # "" THEN [raised |-> l.raised, table |-> table]
        ELSE [raised |-> "",
              table |-> PostgresClient_save_update_thread(
                            table, thread_id, user_id, conversation_history,
                            s.value, l.value, db_ok)]

----------------------------------------------------------------------------
(* State after construction: empty cache_data (local_cache.py:14), an      *)
(* empty table (init_script), no request in flight                         *)

\* A request: the handler (op), its position (pc), its arguments and locals,
\* and its response (result, payload). absent, created, attempted and
\* db_error record what happened to it: the thread was in neither tier when
\* it arrived, it created the thread in the Fast Store, the tiers whose
\* deletion it attempted, a storage error was caught and logged; invoked and
\* stream_failed: agent.astream was started, and it raised.
IdleReq ==
    [op |-> "idle", pc |-> "idle", thread_id |-> "", user_id |-> None,
     query |-> "", resp_str |-> "", attempt |-> 0, cache_hit |-> FALSE, ds_hit |-> FALSE,
     ts |-> 0, messages |-> <<>>, invoked |-> FALSE, stream_failed |-> FALSE,
     absent |-> FALSE,
     created |-> FALSE, attempted |-> {}, db_error |-> FALSE, info |-> NoInfo,
     result |-> "", payload |-> NoInfo]

Reqs == {1}

\* what the last call of a Fast Store method returned or raised
Ret(op, value) == [op |-> op, value |-> value]

Init ==
    /\ now = 1
    /\ cache_data = <<>>
    /\ pg_table = <<>>
    /\ checkpoints = {}
    /\ req = [r \in Reqs |-> IdleReq]
    /\ next_msg = [cache |-> 0, ds |-> 0]
    /\ CACHE_NAME = "inmemory"
    /\ redis_db = [t \in ThreadIds |-> RedisNoKeys]
    /\ ret = Ret("", "")

\* time passes; the Redis server removes the keys whose time to live is over
Tick ==
    /\ now < MaxClock
    /\ now' = now + 1
    /\ redis_db' = [t \in ThreadIds |-> RedisExpired(redis_db[t], now + 1)]
    /\ UNCHANGED <<cache_data, pg_table, checkpoints, req, next_msg, CACHE_NAME, ret>>

----------------------------------------------------------------------------
(* Request handlers of server.py (Spec). A handler runs from one await to   *)
(* the next in one step; db_ok says whether the database statement of the  *)
(* step succeeds (a failure is caught and logged by PostgresClient).       *)

\* for _ in range(5)
MaxAttempts == 5

\* the last user message of the prompt, as sent: plain text, text of
\* non-ASCII characters only, markup only, or no user message at all
RawQueries == {"hi", "NONASCII", "<br>", None}

\* re.sub(r"[^\x00-\x7F]+", "", last_user_message or "") ... .replace("~", "-")
NormalizeQuery(raw) ==
    CASE raw = None -> ""
      [] raw = "NONASCII" -> ""
      [] raw = "~" -> "-"
      [] OTHER -> raw

\* what the stream of agent.astream adds up to (resp_str), or its failure
StreamOutcomes == {"ans", "", "error"}

\* PostgresClient.save_update_thread has no return statement
save_update_thread_returns(db_ok) == None

\* PostgresClient.delete_conversation_thread has no return statement either
delete_conversation_thread_returns(db_ok) == None

\* Python truthiness of a returned value
ReturnTruthy(v) == v \notin {None, "False", ""}

\* a handler may start once the previous response has been returned
Idle(r) == req[r].pc \in {"idle", "done"}

\* the number of messages a tier holds for a thread, 0 when it holds none
HistLen(store, thread_id, field) ==
    IF thread_id \in DOMAIN store THEN Len(store[thread_id][field]) ELSE 0

Finish(r, result) == [req[r] EXCEPT !.pc = "done", !.result = result]

Rounds(thread_id) ==
    IF HistLen(cache_data, thread_id, "conversation_history")
           >= HistLen(pg_table, thread_id, "conversation_data")
    THEN HistLen(cache_data, thread_id, "conversation_history") \div 2
    ELSE HistLen(pg_table, thread_id, "conversation_data") \div 2

(* ---- create_thread ---- *)

create_thread_Begin(r, user_id) ==
    /\ Idle(r)
    /\ req' = [req EXCEPT ![r] = [IdleReq EXCEPT !.op = "create_thread",
                                      !.pc = "loop", !.user_id = user_id]]
    /\ UNCHANGED <<now, cache_data, pg_table, checkpoints, next_msg, CACHE_NAME, redis_db, ret>>

\* a faulty variant of create_thread_Loop: the turns are not counted
create_thread_Loop_uncounted(r) ==
    /\ req[r].op = "create_thread" /\ req[r].pc = "loop"
    /\ \E uuid4 \in ThreadIds :
          req' = [req EXCEPT ![r] =
                    [req[r] EXCEPT !.thread_id = uuid4,
                        !.pc = IF LocalCache_is_thread(cache_data, uuid4)
                               THEN "loop" ELSE "ds_check"]]
    /\ UNCHANGED <<now, cache_data, pg_table, checkpoints, next_msg, CACHE_NAME, redis_db, ret>>

\* one turn of the loop up to the await of datastore.is_valid_thread
create_thread_Loop(r) ==
    /\ req[r].op = "create_thread" /\ req[r].pc = "loop"
    /\ IF req[r].attempt = MaxAttempts
       THEN req' = [req EXCEPT ![r] = Finish(r, "500: Unable to generate thread_id")]
       ELSE \E uuid4 \in ThreadIds :
              req' = [req EXCEPT ![r] =
                        [req[r] EXCEPT !.attempt = @ + 1, !.thread_id = uuid4,
                            !.pc = IF LocalCache_is_thread(cache_data, uuid4)
                                   THEN "loop" ELSE "ds_check"]]
    /\ UNCHANGED <<now, cache_data, pg_table, checkpoints, next_msg, CACHE_NAME, redis_db, ret>>

\* datastore.is_valid_thread answers; cache.create_conversation_thread and the
\* validation of Datastore.save_update_thread run up to the await of the upsert
create_thread_Check(r, db_ok) ==
    /\ req[r].op = "create_thread" /\ req[r].pc = "ds_check"
    /\ IF PostgresClient_is_thread(pg_table, req[r].thread_id, db_ok)
       THEN /\ req' = [req EXCEPT ![r] = [req[r] EXCEPT !.pc = "loop"]]
            /\ UNCHANGED <<now, cache_data>>
       ELSE \E t_start \in ClockReads(now) :
              LET c == LocalCache_create_conversation_thread(
                           cache_data, req[r].thread_id, req[r].user_id, now, t_start)
                  info == LocalCache_get_thread_info(c.cache, req[r].thread_id).info
                  s == normalize_time(info.start_conversation_time, t_start)
                  l == normalize_time(info.last_conversation_time, t_start)
              IN  /\ cache_data' = c.cache
                  /\ now' = IF c.ok THEN t_start ELSE now
                  /\ t_start # now => c.ok
                  /\ req' = [req EXCEPT ![r] =
                        IF ~c.ok THEN [req[r] EXCEPT !.pc = "loop"]
                        ELSE IF s.raised # "" \/ l.raised # ""
                        THEN [Finish(r, "500: ValueError") EXCEPT !.created = TRUE]
                        ELSE [req[r] EXCEPT !.pc = "save", !.created = TRUE,
                                            !.info = info]]
    /\ UNCHANGED <<pg_table, checkpoints, next_msg, CACHE_NAME, redis_db, ret>>

\* the upsert runs; its return value decides the response
create_thread_Save(r, db_ok) ==
    /\ req[r].op = "create_thread" /\ req[r].pc = "save"
    /\ LET info == req[r].info
           d == Datastore_save_update_thread(
                    pg_table, req[r].thread_id, info.user_id,
                    info.conversation_history, info.start_conversation_time,
                    info.last_conversation_time, now, db_ok)
       IN  /\ pg_table' = d.table
           /\ req' = [req EXCEPT ![r] =
                 [Finish(r, IF ReturnTruthy(save_update_thread_returns(db_ok))
                            THEN "CreateThreadResponse"
                            ELSE "500: Unable to save thread_id")
                     EXCEPT !.db_error = ~db_ok]]
    /\ UNCHANGED <<now, cache_data, checkpoints, next_msg, CACHE_NAME, redis_db, ret>>

(* ---- generate_answer ---- *)

\* the handler up to its first await: the Fast Store is asked for the thread
generate_answer_Begin(r, thread_id, user_id, raw) ==
    /\ Idle(r)
    /\ Rounds(thread_id) < MaxRounds
    /\ req' = [req EXCEPT ![r] =
          [IdleReq EXCEPT !.op = "generate_answer", !.thread_id = thread_id,
               !.user_id = user_id, !.query = NormalizeQuery(raw), !.ts = now,
               !.absent = thread_id \notin DOMAIN cache_data
                          /\ thread_id \notin DOMAIN pg_table,
               !.cache_hit = LocalCache_is_thread(cache_data, thread_id),
               !.pc = IF LocalCache_is_thread(cache_data, thread_id)
                      THEN "stream" ELSE "ds_check"]]
    /\ UNCHANGED <<now, cache_data, pg_table, checkpoints, next_msg, CACHE_NAME, redis_db, ret>>

\* a faulty variant of generate_answer_Check: the answer is not looked at
generate_answer_Check_skipped(r, db_ok) ==
    /\ req[r].op = "generate_answer" /\ req[r].pc = "ds_check"
    /\ req' = [req EXCEPT ![r] = [req[r] EXCEPT !.pc = "stream"]]
    /\ UNCHANGED <<now, cache_data, pg_table, checkpoints, next_msg, CACHE_NAME, redis_db, ret>>

\* datastore.is_valid_thread answers: the fallback reply for an unknown thread
generate_answer_Check(r, db_ok) ==
    /\ req[r].op = "generate_answer" /\ req[r].pc = "ds_check"
    /\ req' = [req EXCEPT ![r] =
          IF PostgresClient_is_thread(pg_table, req[r].thread_id, db_ok)
          THEN [req[r] EXCEPT !.pc = "ds_get", !.ds_hit = TRUE]
          ELSE Finish(r, "fallback")]
    /\ UNCHANGED <<now, cache_data, pg_table, checkpoints, next_msg, CACHE_NAME, redis_db, ret>>

\* datastore.get_thread_info answers and the row is handed to
\* cache.update_conversation_thread(**thread_info); whatever is raised is
\* caught by the handler's except clause, which sends the fallback reply
generate_answer_Fetch(r, db_ok) ==
    /\ req[r].op = "generate_answer" /\ req[r].pc = "ds_get"
    /\ LET row == PostgresClient_get_thread_info(pg_table, req[r].thread_id, db_ok)
       IN  \E t_start \in ClockReads(now) :
             LET u == CacheManager_update_conversation_thread(
                          cache_data, req[r].thread_id, row.info.user_id,
                          row.info.conversation_history,
                          row.info.start_conversation_time,
                          row.info.last_conversation_time, now, t_start)
                 filled == row.found /\ u.raised = ""
             IN  /\ t_start # now => filled
                 /\ cache_data' = IF filled THEN u.cache ELSE cache_data
                 /\ now' = IF filled THEN t_start ELSE now
                 /\ req' = [req EXCEPT ![r] =
                       IF filled THEN [req[r] EXCEPT !.pc = "stream"]
                       ELSE Finish(r, "fallback")]
    /\ UNCHANGED <<pg_table, checkpoints, next_msg, CACHE_NAME, redis_db, ret>>

\* a faulty variant of generate_answer_Stream: what was streamed before the
\* failure is kept and the round goes on to its writes
generate_answer_Stream_unguarded(r, outcome) ==
    /\ req[r].op = "generate_answer" /\ req[r].pc = "stream"
    /\ checkpoints' = checkpoints \cup {req[r].thread_id}
    /\ req' = [req EXCEPT ![r] =
          [req[r] EXCEPT !.pc = "write", !.invoked = TRUE,
                         !.stream_failed = (outcome = "error"),
                         !.resp_str = IF outcome = "" THEN "" ELSE "ans"]]
    /\ UNCHANGED <<now, cache_data, pg_table, next_msg, CACHE_NAME, redis_db, ret>>

\* response_generator runs agent.astream under the thread's checkpoint; a
\* failure of the stream ends the response without the closing chunk
generate_answer_Stream(r, outcome) ==
    /\ req[r].op = "generate_answer" /\ req[r].pc = "stream"
    /\ checkpoints' = checkpoints \cup {req[r].thread_id}
    /\ req' = [req EXCEPT ![r] =
          IF outcome = "error"
          THEN [Finish(r, "stream broken") EXCEPT !.invoked = TRUE,
                                                  !.stream_failed = TRUE]
          ELSE [req[r] EXCEPT !.pc = "write", !.invoked = TRUE,
                              !.resp_str = outcome]]
    /\ UNCHANGED <<now, cache_data, pg_table, next_msg, CACHE_NAME, redis_db, ret>>

\* a faulty variant of RoundMessages: the reply is put before the query
RoundMessages_reversed(query, user_query_timestamp, resp_str, response_timestamp) ==
    LET m_user == Message("user", query, user_query_timestamp)
        m_assistant == Message("assistant", resp_str, response_timestamp)
    IN  IF m_user.raised # "" THEN [raised |-> m_user.raised, value |-> <<>>]
        ELSE IF m_assistant.raised # ""
        THEN [raised |-> m_assistant.raised, value |-> <<>>]
        ELSE [raised |-> "", value |-> <<m_assistant.value, m_user.value>>]

\* the two messages of the round, built at the end of the stream
RoundMessages(query, user_query_timestamp, resp_str, response_timestamp) ==
    LET m_user == Message("user", query, user_query_timestamp)
        m_assistant == Message("assistant", resp_str, response_timestamp)
    IN  IF m_user.raised # "" THEN [raised |-> m_user.raised, value |-> <<>>]
        ELSE IF m_assistant.raised # ""
        THEN [raised |-> m_assistant.raised, value |-> <<>>]
        ELSE [raised |-> "", value |-> <<m_user.value, m_assistant.value>>]

\* prompt.user_id or "default"
UserOrDefault(user_id) == IF user_id = "" \/ user_id = None THEN "default" ELSE user_id

\* the stream has ended: the exchange is written to the Fast Store, and
\* Datastore.save_update_thread runs up to the await of the upsert
generate_answer_Write(r) ==
    /\ req[r].op = "generate_answer" /\ req[r].pc = "write"
    /\ LET msgs == RoundMessages(req[r].query, req[r].ts, req[r].resp_str, now)
       IN  \E t_start \in ClockReads(now) :
             LET u == CacheManager_update_conversation_thread(
                          cache_data, req[r].thread_id, UserOrDefault(req[r].user_id),
                          msgs.value, TNone, TFloat(req[r].ts), now, t_start)
                 written == msgs.raised = "" /\ u.raised = ""
             IN  /\ t_start # now =>
                        written /\ req[r].thread_id \notin DOMAIN cache_data
                 /\ cache_data' = IF written THEN u.cache ELSE cache_data
                 /\ now' = IF written THEN t_start ELSE now
                 /\ req' = [req EXCEPT ![r] =
                       IF written
                       THEN [req[r] EXCEPT !.pc = "save", !.messages = msgs.value]
                       ELSE Finish(r, "stream broken")]
    /\ UNCHANGED <<pg_table, checkpoints, next_msg, CACHE_NAME, redis_db, ret>>

\* the upsert of the exchange runs, then the closing chunk is sent
generate_answer_Save(r, db_ok) ==
    /\ req[r].op = "generate_answer" /\ req[r].pc = "save"
    /\ pg_table' = Datastore_save_update_thread(
                       pg_table, req[r].thread_id, UserOrDefault(req[r].user_id),
                       req[r].messages, TNone, TFloat(req[r].ts), now, db_ok).table
    /\ req' = [req EXCEPT ![r] =
          [Finish(r, "stream done") EXCEPT !.db_error = ~db_ok]]
    /\ UNCHANGED <<now, cache_data, checkpoints, next_msg, CACHE_NAME, redis_db, ret>>

(* ---- get_thread_info ---- *)

\* GetThreadResponse(thread_id=, user_id=, conversation_history=) built from
\* cache.get_thread_info: the two time fields are not passed and keep their
\* default, the text "None"
GetThreadResponse(cache, thread_id) ==
    LET thread_info == LocalCache_get_thread_info(cache, thread_id).info
    IN  [user_id |-> thread_info.user_id,
         conversation_history |-> thread_info.conversation_history,
         last_conversation_time |-> TNone,
         start_conversation_time |-> TNone]

get_thread_info_Begin(r, thread_id) ==
    /\ Idle(r)
    /\ req' = [req EXCEPT ![r] =
          LET q == [IdleReq EXCEPT !.op = "get_thread_info", !.thread_id = thread_id,
                        !.absent = thread_id \notin DOMAIN cache_data
                                   /\ thread_id \notin DOMAIN pg_table,
                        !.cache_hit = LocalCache_is_thread(cache_data, thread_id)]
          IN  IF q.cache_hit
              THEN [q EXCEPT !.pc = "done", !.result = "GetThreadResponse",
                             !.payload = GetThreadResponse(cache_data, thread_id)]
              ELSE [q EXCEPT !.pc = "ds_check"]]
    /\ UNCHANGED <<now, cache_data, pg_table, checkpoints, next_msg, CACHE_NAME, redis_db, ret>>

\* a faulty variant of get_thread_info_Check: a miss in both tiers opens an
\* entry in the Fast Store before the answer is sent
get_thread_info_Check_creating(r, db_ok) ==
    /\ req[r].op = "get_thread_info" /\ req[r].pc = "ds_check"
    /\ IF PostgresClient_is_thread(pg_table, req[r].thread_id, db_ok)
       THEN /\ req' = [req EXCEPT ![r] = [req[r] EXCEPT !.pc = "ds_get", !.ds_hit = TRUE]]
            /\ UNCHANGED cache_data
       ELSE /\ req' = [req EXCEPT ![r] = Finish(r, "404: Thread info not found")]
            /\ cache_data' = LocalCache_create_conversation_thread(
                                 cache_data, req[r].thread_id, "", now, now).cache
    /\ UNCHANGED <<now, pg_table, checkpoints, next_msg, CACHE_NAME, redis_db, ret>>

\* datastore.is_valid_thread answers: a miss in both tiers raises
\* HTTPException(404)
get_thread_info_Check(r, db_ok) ==
    /\ req[r].op = "get_thread_info" /\ req[r].pc = "ds_check"
    /\ req' = [req EXCEPT ![r] =
          IF PostgresClient_is_thread(pg_table, req[r].thread_id, db_ok)
          THEN [req[r] EXCEPT !.pc = "ds_get", !.ds_hit = TRUE]
          ELSE Finish(r, "404: Thread info not found")]
    /\ UNCHANGED <<now, cache_data, pg_table, checkpoints, next_msg, CACHE_NAME, redis_db, ret>>

\* the row is handed to cache.update_conversation_thread(**thread_info); an
\* exception of that call is not caught by this handler
get_thread_info_Fetch(r, db_ok) ==
    /\ req[r].op = "get_thread_info" /\ req[r].pc = "ds_get"
    /\ LET row == PostgresClient_get_thread_info(pg_table, req[r].thread_id, db_ok)
       IN  \E t_start \in ClockReads(now) :
             LET u == CacheManager_update_conversation_thread(
                          cache_data, req[r].thread_id, row.info.user_id,
                          row.info.conversation_history,
                          row.info.start_conversation_time,
                          row.info.last_conversation_time, now, t_start)
                 filled == row.found /\ u.raised = ""
             IN  /\ t_start # now => filled
                 /\ cache_data' = IF filled THEN u.cache ELSE cache_data
                 /\ now' = IF filled THEN t_start ELSE now
                 /\ req' = [req EXCEPT ![r] =
                       IF filled
                       THEN [Finish(r, "GetThreadResponse") EXCEPT
                                !.payload = GetThreadResponse(u.cache, req[r].thread_id)]
                       ELSE IF ~row.found
                       THEN [Finish(r, "404: Invalid thread info found!")
                                EXCEPT !.db_error = TRUE]
                       ELSE Finish(r, "500: " \o u.raised)]
    /\ UNCHANGED <<pg_table, checkpoints, next_msg, CACHE_NAME, redis_db, ret>>

(* ---- delete_thread ---- *)

delete_thread_Begin(r, thread_id) ==
    /\ Idle(r)
    /\ req' = [req EXCEPT ![r] =
          [IdleReq EXCEPT !.op = "delete_thread", !.thread_id = thread_id,
               !.pc = "ds_check",
               !.absent = thread_id \notin DOMAIN cache_data
                          /\ thread_id \notin DOMAIN pg_table,
               !.cache_hit = LocalCache_is_thread(cache_data, thread_id)]]
    /\ UNCHANGED <<now, cache_data, pg_table, checkpoints, next_msg, CACHE_NAME, redis_db, ret>>

\* datastore.is_valid_thread answers; the Fast Store entry is deleted up to
\* the await of the Durable Store's delete
delete_thread_Check(r, db_ok) ==
    /\ req[r].op = "delete_thread" /\ req[r].pc = "ds_check"
    /\ LET ds_hit == PostgresClient_is_thread(pg_table, req[r].thread_id, db_ok)
       IN  IF ~(req[r].cache_hit \/ ds_hit)
           THEN /\ req' = [req EXCEPT ![r] = Finish(r, "Thread info not found")]
                /\ UNCHANGED cache_data
           ELSE /\ cache_data' = LocalCache_delete_conversation_thread(
                                     cache_data, req[r].thread_id).cache
                /\ req' = [req EXCEPT ![r] =
                      [req[r] EXCEPT !.pc = "ds_delete", !.ds_hit = ds_hit,
                                     !.attempted = {"cache"}]]
    /\ UNCHANGED <<now, pg_table, checkpoints, next_msg, CACHE_NAME, redis_db, ret>>

delete_thread_Datastore(r, db_ok) ==
    /\ req[r].op = "delete_thread" /\ req[r].pc = "ds_delete"
    /\ pg_table' = PostgresClient_delete_conversation_thread(
                       pg_table, req[r].thread_id, db_ok)
    /\ req' = [req EXCEPT ![r] =
          [req[r] EXCEPT !.pc = "checkpointer", !.db_error = ~db_ok,
                         !.attempted = @ \cup {"datastore"}]]
    /\ UNCHANGED <<now, cache_data, checkpoints, next_msg, CACHE_NAME, redis_db, ret>>

\* what remove_state_from_checkpointer may meet: its statements run, one of
\* them fails (caught and logged), or no connection is obtained (raised)
CheckpointerOutcomes == {"ok", "sql_error", "no_connection"}

remove_state_from_checkpointer(ckpts, thread_id, outcome) ==
    IF outcome = "ok" THEN ckpts \ {thread_id} ELSE ckpts

delete_thread_Checkpointer(r, outcome) ==
    /\ req[r].op = "delete_thread" /\ req[r].pc = "checkpointer"
    /\ checkpoints' = remove_state_from_checkpointer(
                          checkpoints, req[r].thread_id, outcome)
    /\ req' = [req EXCEPT ![r] =
          [Finish(r, IF outcome = "no_connection" THEN "500: PoolTimeout"
                     ELSE "Thread info deleted")
              EXCEPT !.db_error = @ \/ outcome # "ok",
                     !.attempted = @ \cup {"checkpointer"}]]
    /\ UNCHANGED <<now, cache_data, pg_table, next_msg, CACHE_NAME, redis_db, ret>>

(* ---- the environment ---- *)

\* the response has been delivered and the request forgotten
Retire(r) ==
    /\ req[r].pc = "done"
    /\ req' = [req EXCEPT ![r] = IdleReq]
    /\ UNCHANGED <<now, cache_data, pg_table, checkpoints, next_msg, CACHE_NAME, redis_db, ret>>

\* the server process is restarted: cache_data starts empty again
Restart ==
    /\ \A r \in Reqs : Idle(r)
    /\ cache_data # <<>>
    /\ cache_data' = <<>>
    /\ req' = [r \in Reqs |-> IdleReq]
    /\ UNCHANGED <<now, pg_table, checkpoints, next_msg, CACHE_NAME, redis_db, ret>>

Next ==
    \/ Tick
    \/ Restart
    \/ \E r \in Reqs :
        \/ \E u \in UserIds : create_thread_Begin(r, u)
        \/ create_thread_Loop(r)
        \/ \E db_ok \in BOOLEAN : create_thread_Check(r, db_ok)
        \/ \E db_ok \in BOOLEAN : create_thread_Save(r, db_ok)
        \/ \E t \in ThreadIds, u \in UserIds, raw \in RawQueries :
              generate_answer_Begin(r, t, u, raw)
        \/ \E db_ok \in BOOLEAN : generate_answer_Check(r, db_ok)
        \/ \E db_ok \in BOOLEAN : generate_answer_Fetch(r, db_ok)
        \/ \E outcome \in StreamOutcomes : generate_answer_Stream(r, outcome)
        \/ generate_answer_Write(r)
        \/ \E db_ok \in BOOLEAN : generate_answer_Save(r, db_ok)
        \/ \E t \in ThreadIds : get_thread_info_Begin(r, t)
        \/ \E db_ok \in BOOLEAN : get_thread_info_Check(r, db_ok)
        \/ \E db_ok \in BOOLEAN : get_thread_info_Fetch(r, db_ok)
        \/ \E t \in ThreadIds : delete_thread_Begin(r, t)
        \/ \E db_ok \in BOOLEAN : delete_thread_Check(r, db_ok)
        \/ \E db_ok \in BOOLEAN : delete_thread_Datastore(r, db_ok)
        \/ \E outcome \in CheckpointerOutcomes : delete_thread_Checkpointer(r, outcome)
        \/ Retire(r)

Spec == Init /\ [][Next]_vars

\* the steps of a create_thread request
create_thread_Steps(r) ==
    \/ create_thread_Loop(r)
    \/ \E db_ok \in BOOLEAN : create_thread_Check(r, db_ok)
    \/ \E db_ok \in BOOLEAN : create_thread_Save(r, db_ok)

\* the event loop resumes a create_thread coroutine whose await has completed
SpecLive == Spec /\ \A r \in Reqs : WF_vars(create_thread_Steps(r))

----------------------------------------------------------------------------
(* Properties of the request handlers (Spec) *)

\* the history a tier holds for a thread, empty when it holds none
CacheHistory(thread_id) ==
    IF thread_id \in DOMAIN cache_data
    THEN cache_data[thread_id].conversation_history ELSE <<>>

DurableHistory(thread_id) ==
    IF thread_id \in DOMAIN pg_table
    THEN pg_table[thread_id].conversation_data ELSE <<>>

C3_BackfillOnRead ==
    \A r \in Reqs :
        (/\ req[r].op = "get_thread_info" /\ req[r].pc = "done"
         /\ ~req[r].cache_hit /\ req[r].ds_hit /\ ~req[r].db_error)
        => /\ req[r].result = "GetThreadResponse"
           /\ req[r].thread_id \in DOMAIN cache_data
           /\ CacheHistory(req[r].thread_id) = DurableHistory(req[r].thread_id)

\* C4 (as claimed): a create_thread request that wrote a fresh id to the Fast
\* Store and whose Durable Store upsert met no error answers with the
\* allocated thread id.
C4_CreateReturnsId ==
    \A r \in Reqs :
        (/\ req[r].op = "create_thread" /\ req[r].pc = "done"
         /\ req[r].created /\ ~req[r].db_error
         /\ req[r].thread_id \in DOMAIN pg_table)
        => req[r].result = "CreateThreadResponse"

\* C5: when get_thread_info on the id a create_thread request has just
\* allocated is the next request, it answers at once with an empty
\* conversation history and with equal start and last conversation times; the
\* two times the thread holds differ by at most one reading of the clock.
C5_CreateThenGet ==
    [][\A r \in Reqs :
        (/\ req[r].op = "create_thread" /\ req[r].pc = "done" /\ req[r].created
         /\ req'[r].op = "get_thread_info"
         /\ req'[r].thread_id = req[r].thread_id)
        => /\ req'[r].pc = "done"
           /\ req'[r].result = "GetThreadResponse"
           /\ req'[r].payload.conversation_history = <<>>
           /\ req'[r].payload.start_conversation_time
                  = req'[r].payload.last_conversation_time
           /\ req[r].thread_id \in DOMAIN cache_data
           /\ cache_data[req[r].thread_id].start_conversation_time.val
                  - cache_data[req[r].thread_id].last_conversation_time.val
                  \in {0, 1}
    ]_vars

\* get_thread_info has answered for a thread with an empty history whose two
\* times were read on either side of a clock tick
C5_Witness ==
    \E r \in Reqs :
        /\ req[r].op = "get_thread_info" /\ req[r].pc = "done"
        /\ req[r].result = "GetThreadResponse"
        /\ req[r].payload.conversation_history = <<>>
        /\ req[r].thread_id \in DOMAIN cache_data
        /\ cache_data[req[r].thread_id].conversation_history = <<>>
        /\ cache_data[req[r].thread_id].start_conversation_time.val
               = cache_data[req[r].thread_id].last_conversation_time.val + 1

\* the thread of a request is in no tier and has no checkpoint
Gone(thread_id) ==
    /\ thread_id \notin DOMAIN cache_data
    /\ thread_id \notin DOMAIN pg_table
    /\ thread_id \notin checkpoints

C9_SuccessWhenHeld ==
    \A r \in Reqs :
        (req[r].op = "delete_thread" /\ req[r].pc = "done" /\ req[r].cache_hit)
        => req[r].result = "Thread info deleted"

\* C10: while a generate request for a thread that was in neither tier when
\* it arrived is being handled, the Fast Store, the Durable Store and the
\* checkpoints do not change, the agent is not invoked, and the request ends
\* with the fallback reply.
C10_UnknownThreadRefused ==
    [][\A r \in Reqs :
        (req[r].op = "generate_answer" /\ req[r].absent /\ req[r].pc # "done")
        => /\ UNCHANGED <<cache_data, pg_table, checkpoints>>
           /\ req'[r].op = "generate_answer"
           /\ ~req'[r].invoked
           /\ req'[r].pc = "done" => req'[r].result = "fallback"
    ]_vars

\* a generate request for an unknown thread has been answered
C10_Witness ==
    \E r \in Reqs :
        /\ req[r].op = "generate_answer" /\ req[r].pc = "done"
        /\ req[r].absent /\ req[r].result = "fallback" /\ ~req[r].invoked
        /\ req[r].thread_id \notin DOMAIN cache_data
        /\ req[r].thread_id \notin DOMAIN pg_table

\* C11: a step in which agent.astream fails ends the request with no message
\* built and leaves the Fast Store and the Durable Store as they were; and
\* before the stream has ended no step of a generate request changes the
\* Durable Store or adds a message of the round to the Fast Store.
C11_FailedRoundRecordsNothing ==
    [][\A r \in Reqs :
        /\ (/\ req[r].op = "generate_answer" /\ req[r].pc = "stream"
            /\ req'[r].stream_failed)
            => /\ UNCHANGED <<cache_data, pg_table>>
               /\ req'[r].pc = "done"
               /\ req'[r].messages = <<>>
        /\ (/\ req[r].op = "generate_answer"
            /\ req[r].pc \in {"ds_check", "ds_get", "stream"})
            => /\ UNCHANGED pg_table
               /\ CacheHistory(req[r].thread_id)' \in
                      {CacheHistory(req[r].thread_id),
                       DurableHistory(req[r].thread_id)}
    ]_vars

\* the stream of a round on a thread held by both tiers has failed
C11_Witness ==
    \E r \in Reqs :
        /\ req[r].op = "generate_answer" /\ req[r].pc = "done"
        /\ req[r].invoked /\ req[r].stream_failed
        /\ req[r].thread_id \in DOMAIN cache_data
        /\ req[r].thread_id \in DOMAIN pg_table
        /\ CacheHistory(req[r].thread_id) = <<>>
        /\ DurableHistory(req[r].thread_id) = <<>>

\* C12 (as claimed): a generate request whose stream failed has answered with
\* the fallback reply.
C12_FallbackOnStreamFailure ==
    \A r \in Reqs :
        (/\ req[r].op = "generate_answer" /\ req[r].pc = "done"
         /\ req[r].stream_failed)
        => req[r].result = "fallback"

----------------------------------------------------------------------------
(* Direct calls of the store API (SpecApi) *)

\* timestamps a caller may pass as start_conversation_time
TimeArgs == {TNone, TBad, TFloat(1), TStr(MaxClock), TDatetime(1)}

\* timestamps a caller may pass as last_conversation_time
LastArgs == {TNone, TFloat(MaxClock)}

\* the thread the direct calls are made on
ApiThreadIds == {"t1"}

\* the i-th message the caller produces
ApiMessage(i) ==
    [role |-> IF i % 2 = 1 THEN "user" ELSE "assistant",
     content |-> "m" \o ToString(i),
     timestamp |-> TStr(1), feedback |-> NoFeedback]

\* the next k messages of the caller for a tier
ApiMessages(tier, k) == [i \in 1..k |-> ApiMessage(next_msg[tier] + i)]

\* CacheManager.create_conversation_thread(thread_id, user_id)
ApiCacheCreate(thread_id, user_id) ==
    \E t_start \in ClockReads(now) :
        LET c == LocalCache_create_conversation_thread(
                     cache_data, thread_id, user_id, now, t_start)
        IN  /\ t_start # now => c.ok
            /\ cache_data' = c.cache
            /\ now' = t_start
            /\ UNCHANGED <<pg_table, checkpoints, req, next_msg, CACHE_NAME, redis_db, ret>>

\* CacheManager.update_conversation_thread(thread_id, user_id, messages, start, last)
\* with the caller's next k messages
ApiCacheUpdate(thread_id, user_id, k, start, last) ==
    /\ next_msg.cache + k <= MaxMsgs
    /\ \E t_start \in ClockReads(now) :
        LET u == CacheManager_update_conversation_thread(
                     cache_data, thread_id, user_id, ApiMessages("cache", k),
                     start, last, now, t_start)
        IN  /\ t_start # now => u.raised = "" /\ thread_id \notin DOMAIN cache_data
            /\ cache_data' = u.cache
            /\ now' = t_start
            /\ next_msg' = IF u.raised = "" /\ u.ok
                           THEN [next_msg EXCEPT !.cache = @ + k] ELSE next_msg
            /\ UNCHANGED <<pg_table, checkpoints, req, CACHE_NAME, redis_db, ret>>

\* CacheManager.delete_conversation_thread(thread_id)
ApiCacheDelete(thread_id) ==
    /\ cache_data' = LocalCache_delete_conversation_thread(cache_data, thread_id).cache
    /\ UNCHANGED <<now, pg_table, checkpoints, req, next_msg, CACHE_NAME, redis_db, ret>>

\* Datastore.save_update_thread(thread_id, user_id, messages, start, last)
\* with the caller's next k messages; db_ok: the statement commits
ApiDsSave(thread_id, user_id, k, start, last, db_ok) ==
    /\ next_msg.ds + k <= MaxMsgs
    /\ LET d == Datastore_save_update_thread(
                    pg_table, thread_id, user_id, ApiMessages("ds", k),
                    start, last, now, db_ok)
       IN  /\ pg_table' = d.table
           /\ next_msg' = IF d.raised = "" /\ db_ok
                          THEN [next_msg EXCEPT !.ds = @ + k] ELSE next_msg
           /\ UNCHANGED <<now, cache_data, checkpoints, req, CACHE_NAME, redis_db, ret>>

\* Datastore.delete_conversation_thread(thread_id)
ApiDsDelete(thread_id, db_ok) ==
    /\ pg_table' = PostgresClient_delete_conversation_thread(pg_table, thread_id, db_ok)
    /\ UNCHANGED <<now, cache_data, checkpoints, req, next_msg, CACHE_NAME, redis_db, ret>>

NextApi ==
    \/ Tick
    \/ \E t \in ApiThreadIds, u \in UserIds \cup {None} : ApiCacheCreate(t, u)
    \/ \E t \in ApiThreadIds, u \in UserIds \cup {None}, k \in 0..2,
          s \in TimeArgs, l \in LastArgs : ApiCacheUpdate(t, u, k, s, l)
    \/ \E t \in ApiThreadIds : ApiCacheDelete(t)
    \/ \E t \in ApiThreadIds, u \in UserIds \cup {None}, k \in 0..2,
          s \in TimeArgs, l \in LastArgs, db_ok \in BOOLEAN :
              ApiDsSave(t, u, k, s, l, db_ok)
    \/ \E t \in ApiThreadIds, db_ok \in BOOLEAN : ApiDsDelete(t, db_ok)

SpecApi == Init /\ [][NextApi]_vars

----------------------------------------------------------------------------
(* Properties of the store API (SpecApi) *)

\* C2: whatever a call does to a thread that a tier holds after it, the
\* history of the thread in that tier is the history it had before the call
\* followed by the messages the call appended, in the order they were given:
\* appending [m1, m2] and then [m3] gives [m1, m2, m3].
C2_AppendConcatenates ==
    [][\A t \in ApiThreadIds :
        /\ t \in DOMAIN cache_data'
            => cache_data'[t].conversation_history
                   = (IF t \in DOMAIN cache_data
                      THEN cache_data[t].conversation_history ELSE <<>>)
                     \o [i \in 1..(next_msg'.cache - next_msg.cache) |->
                            ApiMessage(next_msg.cache + i)]
        /\ t \in DOMAIN pg_table'
            => pg_table'[t].conversation_data
                   = (IF t \in DOMAIN pg_table
                      THEN pg_table[t].conversation_data ELSE <<>>)
                     \o [i \in 1..(next_msg'.ds - next_msg.ds) |->
                            ApiMessage(next_msg.ds + i)]
    ]_vars

\* both tiers hold the three messages of the caller in the order given
C2_Witness ==
    \E t \in ApiThreadIds :
        /\ t \in DOMAIN cache_data /\ t \in DOMAIN pg_table
        /\ cache_data[t].conversation_history
               = <<ApiMessage(1), ApiMessage(2), ApiMessage(3)>>
        /\ pg_table[t].conversation_data
               = <<ApiMessage(1), ApiMessage(2), ApiMessage(3)>>

\* C6: a call on a thread that a tier holds before and after it leaves the
\* start_conversation_time of the thread in that tier as it was, whatever
\* start time the call supplies.
C6_StartTimeKept ==
    [][\A t \in ApiThreadIds :
        /\ (t \in DOMAIN cache_data /\ t \in DOMAIN cache_data')
            => cache_data'[t].start_conversation_time
                   = cache_data[t].start_conversation_time
        /\ (t \in DOMAIN pg_table /\ t \in DOMAIN pg_table')
            => pg_table'[t].start_conversation_time
                   = pg_table[t].start_conversation_time
    ]_vars

\* both tiers hold a thread that started at the first clock value and has
\* had messages appended since, the clock having moved on
C6_Witness ==
    \E t \in ApiThreadIds :
        /\ now = MaxClock
        /\ t \in DOMAIN cache_data /\ t \in DOMAIN pg_table
        /\ cache_data[t].start_conversation_time = TStr(1)
        /\ pg_table[t].start_conversation_time = 1
        /\ cache_data[t].last_conversation_time = TStr(MaxClock)
        /\ pg_table[t].last_conversation_time = MaxClock
        /\ Len(cache_data[t].conversation_history) >= 2
        /\ Len(pg_table[t].conversation_data) >= 2

\* C7 (as claimed): when the Fast Store does not hold a thread that the
\* Durable Store holds and update_conversation_thread is called with the
\* start time of the Durable Store row, the Fast Store records that start
\* time for the thread.
C7_SuppliedStartRecorded ==
    [][\A t \in ApiThreadIds, u \in UserIds \cup {None}, k \in 0..2,
          s \in TimeArgs, l \in LastArgs :
        (/\ t \notin DOMAIN cache_data /\ t \in DOMAIN pg_table
         /\ normalize_time(s, now).raised = ""
         /\ Truthy(s)
         /\ normalize_time(s, now).value.val = pg_table[t].start_conversation_time
         /\ ApiCacheUpdate(t, u, k, s, l)
         /\ t \in DOMAIN cache_data')
        => cache_data'[t].start_conversation_time.val
               = pg_table[t].start_conversation_time
    ]_vars

----------------------------------------------------------------------------
(* RedisClient. redis_db[thread_id] holds the values of the four keys of a  *)
(* thread: <thread_id>:start_conversation_time, :last_conversation_time,   *)
(* :user_id and the list :conversation_history, and the time to live of    *)
(* each; a key that does not exist reads as None, a list that does not     *)
(* exist as the empty list.                                                *)

\* json.dumps(conv) and json.loads(text) of a message dict
json_dumps(conv) == [json |-> conv]
json_loads(text) == text.json

\* RPUSH key value [value ...]: the server rejects the command without a value
rpush_accepted(values) == values # <<>>

\* SET key value: redis-py raises DataError for a value of None
set_accepted(value) == value # None

\* EXISTS <thread_id>:start_conversation_time
RedisClient_is_thread(db, thread_id) == db[thread_id].start_conversation_time # TNone

RedisClient_get_messages(db, thread_id) ==
    [i \in 1..Len(db[thread_id].conversation_history) |->
        json_loads(db[thread_id].conversation_history[i])]

RedisClient_get_thread_info(db, thread_id) ==
    [user_id |-> db[thread_id].user_id,
     conversation_history |-> RedisClient_get_messages(db, thread_id),
     last_conversation_time |-> db[thread_id].last_conversation_time,
     start_conversation_time |-> db[thread_id].start_conversation_time]

\* the commands are queued in a pipeline and sent as one MULTI/EXEC
\* transaction, which the server discards when it rejected a queued command;
\* pipeline.rpush(key, *[]) queues RPUSH without a value. Every exception is
\* caught and answered with False.
RedisClient_create_conversation_thread(db, thread_id, user_id, t_start, t_last) ==
    IF RedisClient_is_thread(db, thread_id) THEN [ok |-> FALSE, db |-> db]
    ELSE IF rpush_accepted(<<>>) /\ set_accepted(user_id)
    THEN [ok |-> TRUE,
          db |-> [db EXCEPT ![thread_id] =
                     [user_id |-> user_id, conversation_history |-> <<>>,
                      last_conversation_time |-> TStr(t_last),
                      start_conversation_time |-> TStr(t_start),
                      expire_at |->
                          [user_id |-> ExpireAt(t_last + Expiry),
                           conversation_history |-> ExpireAt(t_last + Expiry),
                           last_conversation_time |-> ExpireAt(t_last + Expiry),
                           start_conversation_time |-> ExpireAt(t_start + Expiry)]]]]
    ELSE [ok |-> FALSE, db |-> db]

\* start_conversation_time written by update_conversation_thread: the
\* supplied time when there is one, else the stored one, else the clock
RedisStart(existing_start, start_conversation_time, t_start) ==
    IF start_conversation_time.kind # "none" THEN TStr(start_conversation_time.val)
    ELSE IF Truthy(existing_start) THEN existing_start
    ELSE TStr(t_start)

\* the commands run one by one; the three SET carry ex=self.expiry, the RPUSH
\* leaves the time to live of the list as it is (none for a list it
\* creates); datetime.fromtimestamp raises TypeError for
\* anything but a number, and only redis.RedisError is caught. t_start and
\* t_last are the reads of datetime.now() and of time.time(), in that order.
RedisClient_update_conversation_thread(db, thread_id, user_id, conversation_history, start_conversation_time, last_conversation_time, t_start, t_last) ==
    LET db1 == IF RedisClient_is_thread(db, thread_id) THEN db
               ELSE RedisClient_create_conversation_thread(
                        db, thread_id, user_id, t_start, t_start).db
        existing_start == db1[thread_id].start_conversation_time
        db2 == [db1 EXCEPT ![thread_id].start_conversation_time =
                   RedisStart(existing_start, start_conversation_time, t_start),
                           ![thread_id].expire_at.start_conversation_time =
                   ExpireAt(t_start + Expiry)]
        db3 == [db2 EXCEPT ![thread_id].last_conversation_time =
                   TStr(IF Truthy(last_conversation_time)
                        THEN last_conversation_time.val ELSE t_last),
                           ![thread_id].expire_at.last_conversation_time =
                   ExpireAt(t_last + Expiry)]
        db4 == [db3 EXCEPT ![thread_id].user_id = user_id,
                           ![thread_id].expire_at.user_id =
                   ExpireAt(t_last + Expiry)]
        db5 == [db4 EXCEPT ![thread_id].conversation_history =
                   @ \o [i \in 1..Len(conversation_history) |->
                            json_dumps(conversation_history[i])]]
    IN  IF start_conversation_time.kind \notin {"none", "float"}
        THEN [raised |-> "TypeError", ok |-> FALSE, db |-> db1]
        ELSE IF last_conversation_time.kind \notin {"none", "float"}
        THEN [raised |-> "TypeError", ok |-> FALSE, db |-> db2]
        ELSE IF ~set_accepted(user_id)
        THEN [raised |-> "", ok |-> FALSE, db |-> db3]
        ELSE IF ~rpush_accepted(conversation_history)
        THEN [raised |-> "", ok |-> FALSE, db |-> db4]
        ELSE [raised |-> "", ok |-> TRUE, db |-> db5]

\* a faulty variant of the feedback: the score is put on the first entry
RedisClient_response_feedback_first(db, thread_id, response_feedback) ==
    IF db[thread_id].conversation_history = <<>> THEN [ok |-> FALSE, db |-> db]
    ELSE [ok |-> TRUE,
          db |-> [db EXCEPT ![thread_id].conversation_history[1] =
                     json_dumps([json_loads(@) EXCEPT
                                    !.feedback = Feedback(response_feedback)])]]

\* LINDEX key -1, conv_data["feedback"] = response_feedback, LSET key -1
\* (LSET leaves the time to live of the list as it is)
RedisClient_response_feedback(db, thread_id, response_feedback) ==
    IF db[thread_id].conversation_history = <<>> THEN [ok |-> FALSE, db |-> db]
    ELSE LET n == Len(db[thread_id].conversation_history)
         IN  [ok |-> TRUE,
              db |-> [db EXCEPT ![thread_id].conversation_history[n] =
                         json_dumps([json_loads(@) EXCEPT
                                        !.feedback = Feedback(response_feedback)])]]

\* the keys that exist are deleted; the answer is True either way
RedisClient_delete_conversation_thread(db, thread_id) ==
    [ok |-> TRUE, db |-> [db EXCEPT ![thread_id] = RedisNoKeys]]

----------------------------------------------------------------------------
(* The Fast Store behind CacheManager (SpecFast): self.memory is a         *)
(* LocalCache or a RedisClient, by the environment variable CACHE_NAME     *)
(* read at construction. ret is the method called last and what it        *)
(* returned ("True", "False") or the exception it raised.                  *)

Bool(b) == IF b THEN "True" ELSE "False"

InitFast ==
    /\ now = 1
    /\ cache_data = <<>>
    /\ pg_table = <<>>
    /\ checkpoints = {}
    /\ req = [r \in Reqs |-> IdleReq]
    /\ next_msg = [cache |-> 0, ds |-> 0]
    /\ CACHE_NAME \in {"inmemory", "redis"}
    /\ redis_db = [t \in ThreadIds |-> RedisNoKeys]
    /\ ret = Ret("", "")

\* the start times a caller supplies: none, or an epoch number
FastStartArgs == {TNone, TFloat(1), TFloat(MaxClock)}

\* the times a caller supplies as text: a string that does not parse, a
\* string that parses
FastTextArgs == {TBad, TIso(1)}

\* the feedback scores a caller gives
FeedbackScores == {1, 2}

\* CacheManager.create_conversation_thread(thread_id, user_id)
FastCreate(thread_id, user_id) ==
    IF CACHE_NAME = "inmemory"
    THEN \E t_start \in ClockReads(now) :
            LET c == LocalCache_create_conversation_thread(
                         cache_data, thread_id, user_id, now, t_start)
            IN  /\ t_start # now => c.ok
                /\ cache_data' = c.cache
                /\ now' = t_start
                /\ ret' = Ret("create_conversation_thread", Bool(c.ok))
                /\ UNCHANGED <<pg_table, checkpoints, req, next_msg, CACHE_NAME, redis_db>>
    ELSE LET c == RedisClient_create_conversation_thread(
                      redis_db, thread_id, user_id, now, now)
         IN  /\ redis_db' = c.db
             /\ ret' = Ret("create_conversation_thread", Bool(c.ok))
             /\ UNCHANGED <<now, cache_data, pg_table, checkpoints, req, next_msg, CACHE_NAME>>

\* CacheManager.update_conversation_thread(thread_id, user_id, messages, start, last)
\* with the caller's next k messages: both times are made strings before
\* self.memory is called
FastUpdate(thread_id, user_id, k, start, last) ==
    /\ next_msg.cache + k <= MaxMsgs
    /\ IF CACHE_NAME = "inmemory"
       THEN \E t_start \in ClockReads(now) :
               LET u == CacheManager_update_conversation_thread(
                            cache_data, thread_id, user_id, ApiMessages("cache", k),
                            start, last, now, t_start)
               IN  /\ t_start # now => u.raised = "" /\ thread_id \notin DOMAIN cache_data
                   /\ cache_data' = u.cache
                   /\ now' = t_start
                   /\ ret' = Ret("update_conversation_thread",
                              IF u.raised # "" THEN u.raised ELSE Bool(u.ok))
                   /\ next_msg' = IF u.raised = "" /\ u.ok
                                  THEN [next_msg EXCEPT !.cache = @ + k] ELSE next_msg
                   /\ UNCHANGED <<pg_table, checkpoints, req, CACHE_NAME, redis_db>>
       ELSE LET s == normalize_time(start, now)
                l == normalize_time(last, now)
                u == RedisClient_update_conversation_thread(
                         redis_db, thread_id, user_id, ApiMessages("cache", k),
                         s.value, l.value, now, now)
            IN  /\ redis_db' = IF s.raised # "" \/ l.raised # "" THEN redis_db ELSE u.db
                /\ ret' = Ret("update_conversation_thread",
                           IF s.raised # "" THEN s.raised
                           ELSE IF l.raised # "" THEN l.raised
                           ELSE IF u.raised # "" THEN u.raised ELSE Bool(u.ok))
                /\ next_msg' = IF s.raised = "" /\ l.raised = "" /\ u.raised = "" /\ u.ok
                               THEN [next_msg EXCEPT !.cache = @ + k] ELSE next_msg
                /\ UNCHANGED <<now, cache_data, pg_table, checkpoints, req, CACHE_NAME>>

\* RedisClient.update_conversation_thread(thread_id, user_id, messages, start, last)
\* called with the epoch numbers of its signature and the caller's next k
\* messages
RedisUpdate(thread_id, user_id, k, start, last) ==
    /\ CACHE_NAME = "redis"
    /\ next_msg.cache + k <= MaxMsgs
    /\ LET u == RedisClient_update_conversation_thread(
                    redis_db, thread_id, user_id, ApiMessages("cache", k),
                    start, last, now, now)
       IN  /\ redis_db' = u.db
           /\ ret' = Ret("RedisClient.update_conversation_thread",
                         IF u.raised # "" THEN u.raised ELSE Bool(u.ok))
           /\ next_msg' = IF u.raised = "" /\ u.ok
                          THEN [next_msg EXCEPT !.cache = @ + k] ELSE next_msg
           /\ UNCHANGED <<now, cache_data, pg_table, checkpoints, req, CACHE_NAME>>

\* CacheManager.response_feedback(thread_id, response_feedback)
FastFeedback(thread_id, response_feedback) ==
    IF CACHE_NAME = "inmemory"
    THEN LET f == LocalCache_response_feedback(cache_data, thread_id, response_feedback)
         IN  /\ cache_data' = f.cache
             /\ ret' = Ret("response_feedback", Bool(f.ok))
             /\ UNCHANGED <<now, pg_table, checkpoints, req, next_msg, CACHE_NAME, redis_db>>
    ELSE LET f == RedisClient_response_feedback(redis_db, thread_id, response_feedback)
         IN  /\ redis_db' = f.db
             /\ ret' = Ret("response_feedback", Bool(f.ok))
             /\ UNCHANGED <<now, cache_data, pg_table, checkpoints, req, next_msg, CACHE_NAME>>

\* CacheManager.delete_conversation_thread(thread_id)
FastDelete(thread_id) ==
    IF CACHE_NAME = "inmemory"
    THEN LET d == LocalCache_delete_conversation_thread(cache_data, thread_id)
         IN  /\ cache_data' = d.cache
             /\ ret' = Ret("delete_conversation_thread", Bool(d.ok))
             /\ UNCHANGED <<now, pg_table, checkpoints, req, next_msg, CACHE_NAME, redis_db>>
    ELSE LET d == RedisClient_delete_conversation_thread(redis_db, thread_id)
         IN  /\ redis_db' = d.db
             /\ ret' = Ret("delete_conversation_thread", Bool(d.ok))
             /\ UNCHANGED <<now, cache_data, pg_table, checkpoints, req, next_msg, CACHE_NAME>>

\* the methods of RedisClient that CacheManager calls
RedisMethods ==
    {"is_thread", "get_thread_info", "get_messages", "create_conversation_thread",
     "update_conversation_thread", "response_feedback", "delete_conversation_thread"}

\* what a method of RedisClient does when the server cannot be reached: its
\* first command raises redis.ConnectionError, a RedisError. The commands of
\* create, feedback and delete are all inside a try that answers False; the
\* three readers have no try, and update calls is_thread before its try.
RedisClient_unreachable(method) ==
    CASE method \in {"is_thread", "get_thread_info", "get_messages"} -> "ConnectionError"
      [] method = "update_conversation_thread" -> "ConnectionError"
      [] method = "create_conversation_thread" -> "False"
      [] method = "response_feedback" -> "False"
      [] method = "delete_conversation_thread" -> "False"

\* a method of CacheManager called while the Redis server cannot be reached:
\* CacheManager hands the call to self.memory without a try of its own
FastUnreachable(method) ==
    /\ CACHE_NAME = "redis"
    /\ ret' = Ret(method, RedisClient_unreachable(method))
    /\ UNCHANGED <<now, cache_data, pg_table, checkpoints, req, next_msg, CACHE_NAME, redis_db>>

NextFast ==
    \/ Tick
    \/ \E m \in RedisMethods : FastUnreachable(m)
    \/ \E t \in ThreadIds, u \in UserIds \cup {None} : FastCreate(t, u)
    \/ \E t \in ThreadIds, u \in UserIds \cup {None}, k \in 0..2,
          s \in FastStartArgs, l \in LastArgs : FastUpdate(t, u, k, s, l)
    \/ \E t \in ThreadIds, u \in UserIds, k \in 0..1,
          s \in FastTextArgs \cup {TNone}, l \in FastTextArgs : FastUpdate(t, u, k, s, l)
    \/ \E t \in ThreadIds, u \in UserIds \cup {None}, k \in 0..2,
          s \in FastStartArgs, l \in LastArgs : RedisUpdate(t, u, k, s, l)
    \/ \E t \in ThreadIds, f \in FeedbackScores : FastFeedback(t, f)
    \/ \E t \in ThreadIds : FastDelete(t)

SpecFast == InitFast /\ [][NextFast]_vars

\* the thread as self.memory.get_thread_info returns it, and whether
\* self.memory.is_thread holds
FastExists(t) ==
    IF CACHE_NAME = "inmemory" THEN LocalCache_is_thread(cache_data, t)
    ELSE RedisClient_is_thread(redis_db, t)
FastInfo(t) ==
    IF CACHE_NAME = "inmemory" THEN LocalCache_get_thread_info(cache_data, t).info
    ELSE RedisClient_get_thread_info(redis_db, t)

----------------------------------------------------------------------------
(* Properties of the Fast Store (SpecFast) *)

\* C14: a feedback call on a thread whose history is not empty returns true
\* and puts the score on the last message of the history, whatever score
\* that message carried before; the other keys of that message, the other
\* messages, the length of the history and the other fields of the thread
\* are as they were.
C14_FeedbackOnLastMessage ==
    [][\A t \in ThreadIds, f \in FeedbackScores :
        (FastFeedback(t, f) /\ FastInfo(t).conversation_history # <<>>)
        => LET h == FastInfo(t).conversation_history
               g == FastInfo(t)'.conversation_history
               n == Len(h)
           IN  /\ ret' = Ret("response_feedback", "True")
               /\ Len(g) = n
               /\ g[n] = [h[n] EXCEPT !.feedback = Feedback(f)]
               /\ \A i \in 1..(n - 1) : g[i] = h[i]
               /\ FastInfo(t)' = [FastInfo(t) EXCEPT !.conversation_history = g]
               /\ FastExists(t)' = FastExists(t)]_vars

\* a thread of two messages or more whose last message carries a score and
\* whose first carries none, after a call that returned true
C14_Witness ==
    \E t \in ThreadIds :
        LET h == FastInfo(t).conversation_history
        IN  /\ Len(h) >= 2
            /\ h[Len(h)].feedback.given
            /\ h[1].feedback = NoFeedback
            /\ ret = Ret("response_feedback", "True")

\* C15 as stated: in every reachable state no message other than the last
\* message of the history of its thread carries a feedback score.
C15_OnlyLastCarriesFeedback ==
    \A t \in ThreadIds :
        LET h == FastInfo(t).conversation_history
        IN  \A i \in 1..(Len(h) - 1) : h[i].feedback = NoFeedback

\* C15: a score is only ever put on the message that is the last of its
\* history at the time of the call: no step changes a message that is not
\* the last of its history, a message arrives in a history without a score,
\* and the score of the last message only changes in a step that returns
\* true. (A message keeps its score when later messages are appended.)
C15_FeedbackOnlyGivenToLast ==
    [][\A t \in ThreadIds :
        LET h == FastInfo(t).conversation_history
            g == FastInfo(t)'.conversation_history
        IN  /\ \A i \in 1..(Len(h) - 1) : i <= Len(g) => g[i] = h[i]
            /\ \A i \in (Len(h) + 1)..Len(g) : g[i].feedback = NoFeedback
            /\ (Len(g) >= Len(h) /\ h # <<>> /\ g[Len(h)] # h[Len(h)])
                   => /\ ret' = Ret("response_feedback", "True")
                      /\ g[Len(h)].feedback.given
                      /\ Len(g) = Len(h)]_vars

\* a message that carries a score and is followed by a later message
C15_Witness ==
    \E t \in ThreadIds :
        LET h == FastInfo(t).conversation_history
        IN  /\ Len(h) >= 2
            /\ h[1].feedback.given
            /\ h[Len(h)].feedback = NoFeedback

\* C16: a feedback call for a thread that the Fast Store does not hold, or
\* whose history is empty, returns false and changes nothing in the store.
C16_FeedbackRefused ==
    [][\A t \in ThreadIds, f \in FeedbackScores :
        (FastFeedback(t, f)
            /\ (~FastExists(t) \/ FastInfo(t).conversation_history = <<>>))
        => /\ ret' = Ret("response_feedback", "False")
           /\ cache_data' = cache_data
           /\ redis_db' = redis_db]_vars

\* C17: in both implementations a create call returns true exactly when the
\* thread was absent, and the thread then exists with an empty history and
\* both times read from the clock during the call; for a thread that exists
\* it returns false and leaves the store as it was.
C17_CreateExactlyWhenAbsent ==
    [][\A t \in ThreadIds, u \in UserIds \cup {None} :
        FastCreate(t, u)
        => IF FastExists(t)
           THEN /\ ret' = Ret("create_conversation_thread", "False")
                /\ cache_data' = cache_data
                /\ redis_db' = redis_db
           ELSE /\ ret' = Ret("create_conversation_thread", "True")
                /\ FastExists(t)'
                /\ FastInfo(t)'.conversation_history = <<>>
                /\ FastInfo(t)'.last_conversation_time = TStr(now)
                /\ FastInfo(t)'.start_conversation_time = TStr(now')]_vars

\* C18: an update of a thread that the Fast Store does not hold creates it
\* and appends: it returns true and the thread then exists with exactly the
\* new messages as its history; an update of a thread that exists returns
\* true, appends the new messages to the history and writes the supplied
\* last time (the clock when none is supplied) as last_conversation_time.
C18_UpdateCreatesAndAppends ==
    [][\A t \in ThreadIds, u \in UserIds \cup {None}, k \in 0..2,
          s \in FastStartArgs, l \in LastArgs :
        (FastUpdate(t, u, k, s, l) \/ RedisUpdate(t, u, k, s, l))
        => /\ ret'.value = "True"
           /\ FastExists(t)'
           /\ FastInfo(t)'.conversation_history
                  = FastInfo(t).conversation_history \o ApiMessages("cache", k)
           /\ FastExists(t)
                  => FastInfo(t)'.last_conversation_time
                         \in (IF l = TNone THEN {TStr(now), TStr(now')}
                              ELSE {TStr(l.val)})]_vars

\* C19: an update with a user_id that is not empty makes it the owner of the
\* thread; an update of a thread that exists with an empty user_id, or with
\* none, leaves the owner as it was.
C19_OwnerOverwrittenWhenGiven ==
    [][\A t \in ThreadIds, u \in UserIds \cup {None}, k \in 0..2,
          s \in FastStartArgs, l \in LastArgs :
        (FastUpdate(t, u, k, s, l) \/ RedisUpdate(t, u, k, s, l))
        => IF u \notin {"", None}
           THEN FastInfo(t)'.user_id = u
           ELSE FastExists(t) => FastInfo(t)'.user_id = FastInfo(t).user_id]_vars

\* C20: with Redis as the Fast Store, an update of a thread whose
\* start_conversation_time is set leaves it as it was, whatever start time
\* the call supplies.
C20_RedisStartNeverOverwritten ==
    [][\A t \in ThreadIds, u \in UserIds \cup {None}, k \in 0..2,
          s \in FastStartArgs, l \in LastArgs :
        (/\ CACHE_NAME = "redis"
         /\ (FastUpdate(t, u, k, s, l) \/ RedisUpdate(t, u, k, s, l))
         /\ Truthy(redis_db[t].start_conversation_time))
        => redis_db'[t].start_conversation_time
               = redis_db[t].start_conversation_time]_vars

\* C21: in both implementations a delete call removes everything the store
\* holds for the thread, returns true when the thread existed and returns
\* false when the store held nothing for it.
C21_DeleteReportsExistence ==
    [][\A t \in ThreadIds :
        FastDelete(t)
        => /\ ~FastExists(t)'
           /\ FastInfo(t)' = NoInfo
           /\ ret' = Ret("delete_conversation_thread", Bool(FastExists(t)))]_vars

\* C22: a method of the Fast Store called while the Redis server cannot be
\* reached answers false (or an empty result): no exception of the
\* connection reaches the caller.
C22_BackendFailureCaught ==
    [][\A m \in RedisMethods :
        FastUnreachable(m) => ret'.value \in {"False", "Empty"}]_vars

----------------------------------------------------------------------------
(* The Durable Store called directly, with what each call returns or       *)
(* raises in ret (SpecStores): Datastore over PostgresClient. fault is the *)
(* point at which the statement of the call fails: not at all, in          *)
(* cursor.execute, in conn.commit before the server has committed, or in   *)
(* conn.commit after it has (the acknowledgement is lost).                 *)

Faults == {"none", "execute", "commit", "ack"}

\* the statement takes effect
Applied(fault) == fault \in {"none", "ack"}

\* the times a caller supplies: none, an epoch number, a string that does
\* not parse, a string that parses
StoreTimeArgs == {TNone, TBad, TFloat(1), TIso(MaxClock)}
StoreLastArgs == {TNone, TBad, TIso(1)}

\* Datastore.save_update_thread(thread_id, user_id, messages, start, last)
StoreDsSave(thread_id, user_id, k, start, last, fault) ==
    /\ next_msg.ds + k <= MaxMsgs
    /\ LET d == Datastore_save_update_thread(
                    pg_table, thread_id, user_id, ApiMessages("ds", k),
                    start, last, now, Applied(fault))
       IN  /\ pg_table' = d.table
           /\ ret' = Ret("save_update_thread",
                         IF d.raised # "" THEN d.raised
                         ELSE save_update_thread_returns(fault = "none"))
           /\ next_msg' = IF d.raised = "" /\ Applied(fault)
                          THEN [next_msg EXCEPT !.ds = @ + k] ELSE next_msg
           /\ UNCHANGED <<now, cache_data, checkpoints, req, CACHE_NAME, redis_db>>

\* Datastore.delete_conversation_thread(thread_id)
StoreDsDelete(thread_id, fault) ==
    /\ pg_table' = PostgresClient_delete_conversation_thread(
                       pg_table, thread_id, Applied(fault))
    /\ ret' = Ret("delete_conversation_thread",
                  delete_conversation_thread_returns(fault = "none"))
    /\ UNCHANGED <<now, cache_data, checkpoints, req, next_msg, CACHE_NAME, redis_db>>

NextStores ==
    \/ Tick
    \/ \E t \in ApiThreadIds, u \in UserIds, k \in 0..1,
          s \in StoreTimeArgs, l \in StoreLastArgs, f \in Faults :
              StoreDsSave(t, u, k, s, l, f)
    \/ \E t \in ApiThreadIds, f \in Faults : StoreDsDelete(t, f)

SpecStores == Init /\ [][NextStores]_vars

----------------------------------------------------------------------------
(* Properties of the Durable Store called directly (SpecStores) *)

\* the exceptions a call may raise
Exceptions == {"ValueError", "TypeError", "ConnectionError"}

\* C23: a write of the Durable Store (save or delete) whose statement fails
\* does not raise, and what it returns differs from what the same call
\* returns when its statement succeeds.
C23_FailedWriteReported ==
    /\ \A t \in ApiThreadIds, u \in UserIds, k \in 0..1,
          s \in {TNone, TFloat(1)}, f \in Faults \ {"none"}, v \in Exceptions \cup {None, "True", "False"} :
          ENABLED (StoreDsSave(t, u, k, s, s, f) /\ ret'.value = v)
          => /\ v \notin Exceptions
             /\ ~ENABLED (StoreDsSave(t, u, k, s, s, "none") /\ ret'.value = v)
    /\ \A t \in ApiThreadIds, f \in Faults \ {"none"}, v \in Exceptions \cup {None, "True", "False"} :
          ENABLED (StoreDsDelete(t, f) /\ ret'.value = v)
          => /\ v \notin Exceptions
             /\ ~ENABLED (StoreDsDelete(t, "none") /\ ret'.value = v)

\* the keys of a thread that exist in Redis
RedisKeys(keys) == {k \in DOMAIN keys \ {"expire_at"} : keys[k] # RedisNoKeys[k]}

\* C24: with Redis as the Fast Store every key of a thread has a time to
\* live, and an update that appends leaves all four keys of the thread with
\* the full time to live, so that none of them is removed while the
\* thread keeps receiving appends.
C24_EveryKeyExpiresAndIsRefreshed ==
    [][CACHE_NAME = "redis"
       => \A t \in ThreadIds :
            /\ \A k \in RedisKeys(redis_db'[t]) : redis_db'[t].expire_at[k].set
            /\ (ret'.op = "RedisClient.update_conversation_thread" /\ ret'.value = "True"
                /\ now' = now)
               => \A k \in DOMAIN RedisNoKeys \ {"expire_at"} :
                     redis_db'[t].expire_at[k] = ExpireAt(now + Expiry)]_vars

\* C25: an update of the Fast Store with a start or last time that is a
\* string which does not parse raises ValueError and leaves the store as it
\* was; and every time the store holds for a thread is in the one form that
\* strftime("%Y-%m-%d %H:%M:%S.%f") writes, whether it was supplied as an
\* epoch number or as a string.
C25_TimesValidatedAndCanonical ==
    [][/\ \A t \in ThreadIds, u \in UserIds, k \in 0..1,
             s \in FastTextArgs \cup {TNone}, l \in FastTextArgs :
           (FastUpdate(t, u, k, s, l) /\ TBad \in {s, l})
           => /\ ret' = Ret("update_conversation_thread", "ValueError")
              /\ cache_data' = cache_data
              /\ redis_db' = redis_db
       /\ \A t \in ThreadIds :
           FastExists(t)'
           => /\ FastInfo(t)'.start_conversation_time.kind = "str"
              /\ FastInfo(t)'.last_conversation_time.kind = "str"]_vars

\* the row a save writes for a thread: the inserted row when the table has
\* none, else the row merged by ON CONFLICT DO UPDATE
MergedRow(table, thread_id, user_id, conversation_history, start, last, clock) ==
    LET uid == IF user_id = "" \/ user_id = None THEN None ELSE user_id
        s == normalize_time(start, clock).value.val
        l == normalize_time(last, clock).value.val
    IN  IF thread_id \in DOMAIN table
        THEN Upsert(table[thread_id], uid, s, l, conversation_history)
        ELSE Insert(uid, s, l, conversation_history)

\* C26: after a save, whether its statement succeeded or failed, the row of
\* the thread is the row as it was before the call (no row when there was
\* none) or the whole merged row, never the new history without the new
\* last_conversation_time or the reverse; the other rows are as they were.
C26_SaveIsAtomic ==
    [][\A t \in ApiThreadIds, u \in UserIds, k \in 0..1,
          s \in StoreTimeArgs, l \in StoreLastArgs, f \in Faults :
        StoreDsSave(t, u, k, s, l, f)
        => \/ pg_table' = pg_table
           \/ /\ TBad \notin {s, l}
              /\ DOMAIN pg_table' = DOMAIN pg_table \cup {t}
              /\ pg_table'[t] = MergedRow(pg_table, t, u, ApiMessages("ds", k), s, l, now)
              /\ \A x \in DOMAIN pg_table \ {t} : pg_table'[x] = pg_table[x]]_vars

\* a row that a second save has merged: two messages or more and a last
\* time later than the start time
C26_Witness ==
    \E t \in ApiThreadIds :
        /\ t \in DOMAIN pg_table
        /\ Len(pg_table[t].conversation_data) >= 2
        /\ pg_table[t].last_conversation_time > pg_table[t].start_conversation_time
        /\ ret.op = "save_update_thread"

----------------------------------------------------------------------------
(* Concurrent create+append sequences on distinct thread ids (SpecPar):    *)
(* each sequence creates its thread as create_thread does and then runs    *)
(* ParRounds rounds, each written as response_generator writes it: the     *)
(* Fast Store update, then the await of the Durable Store upsert. The      *)
(* event loop switches between the sequences at each await.                *)

ParReqs == {1, 2}
ParRounds == MaxRounds + 1
ParThreadIds == {"t1", "t2"}
ParThread(r) == IF r = 1 THEN "t1" ELSE "t2"
ParUser(r) == IF r = 1 THEN "u1" ELSE ""

\* the query and the answer of round n of sequence r
ParQuery(r, n) == ParThread(r) \o "-q" \o ToString(n)
ParAnswer(r, n) == ParThread(r) \o "-a" \o ToString(n)

InitPar ==
    /\ now = 1
    /\ cache_data = <<>>
    /\ pg_table = <<>>
    /\ checkpoints = {}
    /\ req = [r \in ParReqs |->
                 [IdleReq EXCEPT !.op = "sequence", !.pc = "create",
                                 !.thread_id = ParThread(r), !.user_id = ParUser(r)]]
    /\ next_msg = [cache |-> 0, ds |-> 0]
    /\ CACHE_NAME = "inmemory"
    /\ redis_db = [t \in ThreadIds |-> RedisNoKeys]
    /\ ret = Ret("", "")

\* cache.create_conversation_thread(thread_id, user_id)
ParCreate(r) ==
    /\ req[r].pc = "create"
    /\ cache_data' = LocalCache_create_conversation_thread(
                         cache_data, req[r].thread_id, req[r].user_id, now, now).cache
    /\ req' = [req EXCEPT ![r].pc = "create_save"]
    /\ UNCHANGED <<now, pg_table, checkpoints, next_msg, CACHE_NAME, redis_db, ret>>

\* await datastore.save_update_thread(thread_id=thread_id, **cache.get_thread_info(thread_id))
ParCreateSave(r, db_ok) ==
    /\ req[r].pc = "create_save"
    /\ LET info == LocalCache_get_thread_info(cache_data, req[r].thread_id).info
       IN  pg_table' = Datastore_save_update_thread(
                           pg_table, req[r].thread_id, info.user_id,
                           info.conversation_history, info.start_conversation_time,
                           info.last_conversation_time, now, db_ok).table
    /\ req' = [req EXCEPT ![r].pc = "write", ![r].db_error = @ \/ ~db_ok]
    /\ UNCHANGED <<now, cache_data, checkpoints, next_msg, CACHE_NAME, redis_db, ret>>

\* cache.update_conversation_thread(thread_id, user_id or "default", [user, assistant])
ParWrite(r) ==
    /\ req[r].pc = "write"
    /\ LET n == req[r].attempt + 1
           msgs == RoundMessages(ParQuery(r, n), now, ParAnswer(r, n), now).value
       IN  /\ cache_data' = CacheManager_update_conversation_thread(
                                cache_data, req[r].thread_id,
                                UserOrDefault(req[r].user_id), msgs,
                                TNone, TFloat(now), now, now).cache
           /\ req' = [req EXCEPT ![r].pc = "save", ![r].messages = msgs,
                                 ![r].ts = now]
    /\ UNCHANGED <<now, pg_table, checkpoints, next_msg, CACHE_NAME, redis_db, ret>>

\* await datastore.save_update_thread(thread_id, user_id or "default", [user, assistant]);
\* attempted holds the rounds whose upsert succeeded
ParSave(r, db_ok) ==
    /\ req[r].pc = "save"
    /\ pg_table' = Datastore_save_update_thread(
                       pg_table, req[r].thread_id, UserOrDefault(req[r].user_id),
                       req[r].messages, TNone, TFloat(req[r].ts), now, db_ok).table
    /\ req' = [req EXCEPT
                  ![r].pc = IF req[r].attempt + 1 = ParRounds THEN "done" ELSE "write",
                  ![r].attempt = @ + 1,
                  ![r].attempted = IF db_ok THEN @ \cup {req[r].attempt + 1} ELSE @,
                  ![r].db_error = @ \/ ~db_ok]
    /\ UNCHANGED <<now, cache_data, checkpoints, next_msg, CACHE_NAME, redis_db, ret>>

NextPar ==
    \/ Tick
    \/ \E r \in ParReqs : ParCreate(r)
    \/ \E r \in ParReqs, db_ok \in BOOLEAN : ParCreateSave(r, db_ok)
    \/ \E r \in ParReqs : ParWrite(r)
    \/ \E r \in ParReqs, db_ok \in BOOLEAN : ParSave(r, db_ok)

SpecPar == InitPar /\ [][NextPar]_vars

----------------------------------------------------------------------------
(* Properties of the concurrent sequences (SpecPar) *)

\* role and content of the messages of a history
Contents(h) == [i \in 1..Len(h) |-> <<h[i].role, h[i].content>>]

\* role and content of the messages of the rounds in `rounds` of sequence
\* r, in the order of the rounds
ParExpected(r, rounds) ==
    LET all == [i \in 1..(2 * ParRounds) |->
                   IF i % 2 = 1 THEN <<"user", ParQuery(r, (i + 1) \div 2)>>
                   ELSE <<"assistant", ParAnswer(r, i \div 2)>>]
        idx == SelectSeq([i \in 1..(2 * ParRounds) |-> i],
                         LAMBDA i : ((i + 1) \div 2) \in rounds)
    IN  [j \in 1..Len(idx) |-> all[idx[j]]]

\* C27: under every interleaving of the sequences, each thread holds its own
\* messages and no others, in its own order: in the Fast Store the rounds
\* its sequence has written, in the Durable Store the rounds whose upsert
\* succeeded, and all rounds in both once the sequence is done and no upsert
\* failed.
C27_DistinctThreadsDoNotInterfere ==
    /\ DOMAIN cache_data \subseteq ParThreadIds
    /\ DOMAIN pg_table \subseteq ParThreadIds
    /\ \A r \in ParReqs :
        LET t == req[r].thread_id
            written == IF req[r].pc = "save" THEN req[r].attempt + 1 ELSE req[r].attempt
        IN  /\ (req[r].pc = "create") = (t \notin DOMAIN cache_data)
            /\ t \in DOMAIN cache_data
                   => Contents(cache_data[t].conversation_history)
                          = ParExpected(r, 1..written)
            /\ t \in DOMAIN pg_table
                   => Contents(pg_table[t].conversation_data)
                          = ParExpected(r, req[r].attempted)
            /\ (req[r].pc = "done" /\ ~req[r].db_error)
                   => /\ t \in DOMAIN pg_table
                      /\ Contents(pg_table[t].conversation_data)
                             = ParExpected(r, 1..ParRounds)
                      /\ Contents(cache_data[t].conversation_history)
                             = ParExpected(r, 1..ParRounds)

\* both sequences are between the Fast Store write and the upsert of their
\* last round, with every earlier upsert done
C27_Witness ==
    \A r \in ParReqs :
        /\ req[r].pc = "save"
        /\ req[r].attempt + 1 = ParRounds
        /\ req[r].attempted = 1..(ParRounds - 1)
        /\ Len(cache_data[req[r].thread_id].conversation_history) = 2 * ParRounds

----------------------------------------------------------------------------
(* Properties of the histories of all tiers (checked under SpecFast, whose  *)
(* steps are appends, feedback writes, deletes and key expiries)           *)

----------------------------------------------------------------------------
(* Reads of a thread that no tier holds (checked under Spec)                *)

\* C29: a get_thread_info request for a thread id that neither tier held
\* when the request began ends with the 404 "Thread info not found" answer,
\* and from its first step to its answer neither the Fast Store nor the
\* Durable Store holds an entry for that id.
C29_NotFoundCreatesNothing ==
    \A r \in Reqs :
        (req[r].op = "get_thread_info" /\ req[r].absent)
        => /\ ~LocalCache_is_thread(cache_data, req[r].thread_id)
           /\ req[r].thread_id \notin DOMAIN pg_table
           /\ ~req[r].ds_hit
           /\ req[r].pc = "done" => /\ req[r].result = "404: Thread info not found"
                                    /\ req[r].payload = NoInfo

\* a get_thread_info request for a thread that no tier holds has been
\* answered
C29_Witness ==
    \E r \in Reqs :
        /\ req[r].op = "get_thread_info" /\ req[r].absent
        /\ req[r].pc = "done"
        /\ req[r].result = "404: Thread info not found"
        /\ req[r].thread_id \notin DOMAIN cache_data \cup DOMAIN pg_table

----------------------------------------------------------------------------
(* Direct calls of the store API on two thread ids (SpecIds)                *)

\* the owner, the last time and the score the calls are made with
IdsUsers == {"u1"}
IdsLastArgs == {TFloat(1)}
IdsScores == {1}

\* CacheManager.is_valid_thread(thread_id)
IdsCacheIsValid(thread_id) ==
    /\ ret' = Ret("CacheManager.is_valid_thread",
                  Bool(LocalCache_is_thread(cache_data, thread_id)))
    /\ UNCHANGED <<now, cache_data, pg_table, checkpoints, req, next_msg, CACHE_NAME, redis_db>>

\* Datastore.is_valid_thread(thread_id); db_ok: the query is answered
IdsDsIsValid(thread_id, db_ok) ==
    /\ ret' = Ret("Datastore.is_valid_thread",
                  Bool(PostgresClient_is_thread(pg_table, thread_id, db_ok)))
    /\ UNCHANGED <<now, cache_data, pg_table, checkpoints, req, next_msg, CACHE_NAME, redis_db>>

\* the calls that change a tier, made with a given thread id
IdsWrite(t) ==
    \/ \E u \in IdsUsers : ApiCacheCreate(t, u)
    \/ \E u \in IdsUsers, k \in 0..1, l \in IdsLastArgs : ApiCacheUpdate(t, u, k, TNone, l)
    \/ \E f \in IdsScores : FastFeedback(t, f)
    \/ ApiCacheDelete(t)
    \/ \E u \in IdsUsers, k \in 0..1, l \in IdsLastArgs, db_ok \in BOOLEAN :
          ApiDsSave(t, u, k, TNone, l, db_ok)
    \/ \E db_ok \in BOOLEAN : ApiDsDelete(t, db_ok)

\* the existence checks, made with a given thread id
IdsRead(t) ==
    \/ IdsCacheIsValid(t)
    \/ \E db_ok \in BOOLEAN : IdsDsIsValid(t, db_ok)

\* the tiers are written for the ids of ApiThreadIds only, and asked about
\* every id
NextIds ==
    \/ Tick
    \/ \E t \in ApiThreadIds : IdsWrite(t)
    \/ \E t \in ParThreadIds : IdsRead(t)

SpecIds == Init /\ [][NextIds]_vars

\* C30: whatever calls have been made with other thread ids, is_thread
\* answers false in the Fast Store and in the Durable Store for a thread id
\* with which no creating or writing call was ever made.
C30_UncreatedStaysAbsent ==
    \A t \in ParThreadIds \ ApiThreadIds :
        /\ ~LocalCache_is_thread(cache_data, t)
        /\ \A db_ok \in BOOLEAN : ~PostgresClient_is_thread(pg_table, t, db_ok)

\* another thread id is held by both tiers with a message, in the Fast
\* Store with a score, and the last call, an existence check, answered False
C30_Witness ==
    \E t \in ParThreadIds \ ApiThreadIds, o \in ApiThreadIds :
        /\ ~LocalCache_is_thread(cache_data, t)
        /\ ~PostgresClient_is_thread(pg_table, t, TRUE)
        /\ LocalCache_is_thread(cache_data, o)
        /\ PostgresClient_is_thread(pg_table, o, TRUE)
        /\ Len(cache_data[o].conversation_history) >= 1
        /\ cache_data[o].conversation_history[1].feedback.given
        /\ Len(pg_table[o].conversation_data) >= 1
        /\ ret = Ret("CacheManager.is_valid_thread", "False")

----------------------------------------------------------------------------
(* Reads of the Fast Store between its writes (SpecReads)                   *)

\* the reading methods of CacheManager
ReadMethods == {"is_valid_thread", "get_thread_info", "get_thread_messages"}

\* what self.memory answers to a reading method
FastAnswer(method, thread_id) ==
    CASE method = "is_valid_thread" ->
           Bool(IF CACHE_NAME = "inmemory" THEN LocalCache_is_thread(cache_data, thread_id)
                ELSE RedisClient_is_thread(redis_db, thread_id))
      [] method = "get_thread_info" ->
           IF CACHE_NAME = "inmemory" THEN LocalCache_get_thread_info(cache_data, thread_id).info
           ELSE RedisClient_get_thread_info(redis_db, thread_id)
      [] method = "get_thread_messages" ->
           IF CACHE_NAME = "inmemory" THEN LocalCache_get_messages(cache_data, thread_id)
           ELSE RedisClient_get_messages(redis_db, thread_id)

\* a faulty variant of FastRead: a miss leaves an empty entry behind, as a
\* dict.setdefault would
FastRead_inserting(method, thread_id) ==
    /\ ret' = Ret(method, FastAnswer(method, thread_id))
    /\ cache_data' = IF CACHE_NAME = "inmemory" /\ thread_id \notin DOMAIN cache_data
                     THEN LocalCache_create_conversation_thread(
                              cache_data, thread_id, "", now, now).cache
                     ELSE cache_data
    /\ UNCHANGED <<now, pg_table, checkpoints, req, next_msg, CACHE_NAME, redis_db>>

\* CacheManager.is_valid_thread, get_thread_info, get_thread_messages: the
\* call is handed to self.memory, which looks the thread up with dict.get
\* or `in` (LocalCache), or with EXISTS, GET and LRANGE (Redis)
FastRead(method, thread_id) ==
    /\ ret' = Ret(method, FastAnswer(method, thread_id))
    /\ UNCHANGED <<now, cache_data, pg_table, checkpoints, req, next_msg, CACHE_NAME, redis_db>>

\* the owner, the last time and the score the writes are made with
ReadsUsers == {"u1"}
ReadsLastArgs == {TFloat(1)}
ReadsScores == {1}

NextReads ==
    \/ Tick
    \/ \E m \in ReadMethods, t \in ThreadIds : FastRead(m, t)
    \/ \E t \in ThreadIds, u \in ReadsUsers : FastCreate(t, u)
    \/ \E t \in ThreadIds, u \in ReadsUsers, k \in 0..1, l \in ReadsLastArgs :
          FastUpdate(t, u, k, TNone, l)
    \/ \E t \in ThreadIds, u \in ReadsUsers, k \in 0..1, l \in ReadsLastArgs :
          RedisUpdate(t, u, k, TNone, l)
    \/ \E t \in ThreadIds, f \in ReadsScores : FastFeedback(t, f)
    \/ \E t \in ThreadIds : FastDelete(t)

SpecReads == InitFast /\ [][NextReads]_vars

\* C31: a call of is_valid_thread, get_thread_info or get_thread_messages,
\* for a thread the Fast Store holds or for one it does not hold, leaves
\* the threads of the Fast Store and every record, with the expiry of each
\* Redis key, as they were.
C31_ReadsChangeNothing ==
    [][(ret'.op \in ReadMethods /\ now' = now)
          => /\ cache_data' = cache_data
             /\ redis_db' = redis_db]_vars

\* get_thread_info has answered with the record of a thread that is held
C31_Witness ==
    \E t \in ThreadIds :
        /\ FastExists(t)
        /\ Len(FastInfo(t).conversation_history) >= 1
        /\ ret.op = "get_thread_info"
        /\ ret.value = FastInfo(t)

----------------------------------------------------------------------------
(* Contents of the messages a generation round stores (checked under Spec)  *)

\* the messages held by the two tiers
StoredMessages ==
    UNION {{cache_data[t].conversation_history[i] :
                i \in 1..Len(cache_data[t].conversation_history)} : t \in DOMAIN cache_data}
    \cup
    UNION {{pg_table[t].conversation_data[i] :
                i \in 1..Len(pg_table[t].conversation_data)} : t \in DOMAIN pg_table}

\* C32: after every step each message held by the Fast Store or by the
\* Durable Store has a role among user, assistant and system and a content
\* that is not empty and holds no markup; and a generation round whose
\* query is empty once normalised and sanitised, or whose reply is empty,
\* ends at its write step with both stores as they were.
C32_StoredMessagesValid ==
    [][/\ \A m \in StoredMessages' :
            /\ m.role \in valid_roles
            /\ m.content # ""
            /\ bleach_clean(m.content) = m.content
       /\ \A r \in Reqs :
            (/\ req[r].op = "generate_answer" /\ req[r].pc = "write"
             /\ (bleach_clean(req[r].query) = "" \/ bleach_clean(req[r].resp_str) = ""))
            => /\ UNCHANGED <<cache_data, pg_table>>
               /\ req'[r].pc \in {"write", "done"}
               /\ req'[r].messages = <<>>]_vars

\* a round whose query was markup only has ended after its stream, on a
\* thread that both tiers hold
C32_Witness ==
    \E r \in Reqs :
        /\ req[r].op = "generate_answer" /\ req[r].pc = "done"
        /\ req[r].query = "<br>" /\ req[r].resp_str = "ans"
        /\ req[r].invoked /\ ~req[r].stream_failed
        /\ req[r].thread_id \in DOMAIN cache_data
        /\ req[r].thread_id \in DOMAIN pg_table

----------------------------------------------------------------------------
(* Two requests at a time on one thread (SpecConc). The steps are those of  *)
(* the handlers of Spec; the event loop resumes either request at an await. *)

\* the thread the requests are made on, its owner, and the last user
\* message of each request
ConcThread == "t1"
ConcUser == "u1"
ConcRaw(r) == IF r = 1 THEN "hi" ELSE "hello"

\* the tiers after create_thread has created the thread at time 1
ConcCreatedCache == LocalCache_create_conversation_thread(<<>>, ConcThread, ConcUser, 1, 1).cache
ConcCreatedTable == Datastore_save_update_thread(<<>>, ConcThread, ConcUser, <<>>, TStr(1), TStr(1), 1, TRUE).table

\* the tiers after a first generation round, made at time 1, has written
\* its exchange
ConcRound == RoundMessages("first", 1, "ans", 1).value
ConcRoundCache == CacheManager_update_conversation_thread(ConcCreatedCache, ConcThread, ConcUser, ConcRound, TNone, TFloat(1), 1, 1).cache
ConcRoundTable == Datastore_save_update_thread(ConcCreatedTable, ConcThread, ConcUser, ConcRound, TNone, TFloat(1), 1, TRUE).table

\* the requests arrive when the thread has been created, or has been
\* created and used for one round; the process may have been restarted
\* since, which leaves the Fast Store empty
InitConc ==
    /\ now = 1
    /\ \E used, restarted \in BOOLEAN :
          /\ pg_table = IF used THEN ConcRoundTable ELSE ConcCreatedTable
          /\ cache_data = IF restarted THEN <<>>
                          ELSE IF used THEN ConcRoundCache ELSE ConcCreatedCache
          /\ checkpoints = IF used THEN {ConcThread} ELSE {}
    /\ req = [r \in ParReqs |-> IdleReq]
    /\ next_msg = [cache |-> 0, ds |-> 0]
    /\ CACHE_NAME = "inmemory"
    /\ redis_db = [t \in ThreadIds |-> RedisNoKeys]
    /\ ret = Ret("", "")

\* what the stream of a round adds up to
ConcOutcomes == {"ans"}

\* what remove_state_from_checkpointer meets
ConcCheckpointer == {"ok"}

\* the client that also deletes; the other one only generates and reads
ConcOthers == {2}

NextConc ==
    \/ Tick
    \/ \E r \in ParReqs :
        \/ generate_answer_Begin(r, ConcThread, ConcUser, ConcRaw(r))
        \/ \E db_ok \in BOOLEAN : generate_answer_Check(r, db_ok)
        \/ \E db_ok \in BOOLEAN : generate_answer_Fetch(r, db_ok)
        \/ \E outcome \in ConcOutcomes : generate_answer_Stream(r, outcome)
        \/ generate_answer_Write(r)
        \/ \E db_ok \in BOOLEAN : generate_answer_Save(r, db_ok)
        \/ get_thread_info_Begin(r, ConcThread)
        \/ \E db_ok \in BOOLEAN : get_thread_info_Check(r, db_ok)
        \/ \E db_ok \in BOOLEAN : get_thread_info_Fetch(r, db_ok)
    \/ \E r \in ConcOthers :
        \/ delete_thread_Begin(r, ConcThread)
        \/ \E db_ok \in BOOLEAN : delete_thread_Check(r, db_ok)
        \/ \E db_ok \in BOOLEAN : delete_thread_Datastore(r, db_ok)
        \/ \E outcome \in ConcCheckpointer : delete_thread_Checkpointer(r, outcome)

SpecConc == InitConc /\ [][NextConc]_vars

\* how often a message occurs in a history
Count(m, h) == Cardinality({i \in 1..Len(h) : h[i] = m})

C34_DeletedStaysAbsent ==
    \A r \in ConcOthers :
        (/\ req[r].op = "delete_thread" /\ req[r].pc = "done"
         /\ req[r].result = "Thread info deleted" /\ ~req[r].db_error)
        => /\ ConcThread \notin DOMAIN cache_data
           /\ ConcThread \notin DOMAIN pg_table

\* C35: whenever the Fast Store holds the thread, every message of its
\* Durable Store history occurs in its Fast Store history.
C35_FastHoldsDurableHistory ==
    ConcThread \in DOMAIN cache_data
    => \A i \in 1..Len(DurableHistory(ConcThread)) :
          Count(DurableHistory(ConcThread)[i], CacheHistory(ConcThread)) >= 1

----------------------------------------------------------------------------
(* Two clients that generate and read on one thread (SpecRounds): SpecConc  *)
(* without delete_thread                                                    *)

NextRounds ==
    \/ Tick
    \/ \E r \in ParReqs :
        \/ generate_answer_Begin(r, ConcThread, ConcUser, ConcRaw(r))
        \/ \E db_ok \in BOOLEAN : generate_answer_Check(r, db_ok)
        \/ \E db_ok \in BOOLEAN : generate_answer_Fetch(r, db_ok)
        \/ \E outcome \in ConcOutcomes : generate_answer_Stream(r, outcome)
        \/ generate_answer_Write(r)
        \/ \E db_ok \in BOOLEAN : generate_answer_Save(r, db_ok)
        \/ get_thread_info_Begin(r, ConcThread)
        \/ \E db_ok \in BOOLEAN : get_thread_info_Check(r, db_ok)
        \/ \E db_ok \in BOOLEAN : get_thread_info_Fetch(r, db_ok)

SpecRounds == InitConc /\ [][NextRounds]_vars

\* the messages msgs occur in the history h, next to each other and in order
Holds(h, msgs) ==
    \E i \in 0..(Len(h) - Len(msgs)) : \A j \in 1..Len(msgs) : h[i + j] = msgs[j]

\* C36: a generation round that has written its exchange to the Fast Store
\* finds it there, user message then assistant message, from then on, and
\* a round whose upsert has succeeded finds it in the Durable Store,
\* whatever the round of the other client has written in between; when
\* both rounds have ended the two tiers hold the exchanges of both.
C36_NoExchangeLost ==
    \A r \in ParReqs :
        /\ (req[r].op = "generate_answer" /\ req[r].pc = "save")
            => /\ Len(req[r].messages) = 2
               /\ Holds(CacheHistory(ConcThread), req[r].messages)
        /\ (req[r].op = "generate_answer" /\ req[r].result = "stream done")
            => /\ Len(req[r].messages) = 2
               /\ Holds(CacheHistory(ConcThread), req[r].messages)
               /\ ~req[r].db_error => Holds(DurableHistory(ConcThread), req[r].messages)

\* two rounds have ended with their upserts done; the one that began first
\* wrote last
C36_Witness ==
    /\ \A r \in ParReqs :
          /\ req[r].op = "generate_answer" /\ req[r].result = "stream done"
          /\ ~req[r].db_error
    /\ req[1].ts < req[2].ts
    /\ CacheHistory(ConcThread) = req[2].messages \o req[1].messages
    /\ DurableHistory(ConcThread) = req[1].messages \o req[2].messages

\* C37: no step moves the last_conversation_time of the thread backwards,
\* in the Fast Store or in the Durable Store.
C37_LastTimeNeverMovesBack ==
    [][/\ (ConcThread \in DOMAIN cache_data /\ ConcThread \in DOMAIN cache_data')
            => cache_data'[ConcThread].last_conversation_time.val
                   >= cache_data[ConcThread].last_conversation_time.val
       /\ (ConcThread \in DOMAIN pg_table /\ ConcThread \in DOMAIN pg_table')
            => pg_table'[ConcThread].last_conversation_time
                   >= pg_table[ConcThread].last_conversation_time]_vars

----------------------------------------------------------------------------
(* The result of create_thread and what it leaves behind (checked under     *)
(* Spec)                                                                    *)

\* C38: while the last request is a create_thread that has ended with a
\* failure, the thread it created, if it created one, is held by neither
\* tier.
C38_FailedCreateLeavesNothing ==
    \A r \in Reqs :
        (/\ req[r].op = "create_thread" /\ req[r].pc = "done"
         /\ req[r].result # "CreateThreadResponse"
         /\ req[r].created)
        => /\ req[r].thread_id \notin DOMAIN cache_data
           /\ req[r].thread_id \notin DOMAIN pg_table

----------------------------------------------------------------------------
(* Feedback between the requests (SpecScores): the handlers of Spec, and    *)
(* CacheManager.response_feedback called on the thread                      *)

NextScores ==
    \/ Next
    \/ \E t \in ThreadIds, f \in ReadsScores : FastFeedback(t, f)

SpecScores == Init /\ [][NextScores]_vars

\* C39: when the Fast Store loses its threads at a restart, every score
\* that a message of the Fast Store carried is carried by the same message
\* of the Durable Store history, from which the thread is read afterwards,
\* wherever the Durable Store holds that message.
C39_FeedbackIsDurable ==
    [][Restart
       => \A t \in DOMAIN cache_data \cap DOMAIN pg_table :
            \A i \in 1..Len(cache_data[t].conversation_history) :
               (/\ cache_data[t].conversation_history[i].feedback.given
                /\ i <= Len(pg_table[t].conversation_data)
                /\ [pg_table[t].conversation_data[i] EXCEPT !.feedback = NoFeedback]
                      = [cache_data[t].conversation_history[i] EXCEPT !.feedback = NoFeedback])
               => pg_table[t].conversation_data[i].feedback
                      = cache_data[t].conversation_history[i].feedback]_vars

----------------------------------------------------------------------------
(* The two times of a stored thread (checked under Spec)                    *)

\* C40: in every state the start_conversation_time of a thread held by the
\* Fast Store, and of a row of the Durable Store, is not later than its
\* last_conversation_time.
C40_StartNotAfterLast ==
    /\ \A t \in DOMAIN cache_data :
          cache_data[t].start_conversation_time.val
              <= cache_data[t].last_conversation_time.val
    /\ \A t \in DOMAIN pg_table :
          pg_table[t].start_conversation_time <= pg_table[t].last_conversation_time

====
